---- MODULE Spec2Model ----
(***************************************************************************)
(* Legal document dashboard backend: metadata classifier, heuristic       *)
(* scorer, query analyzer, relevance ranker, comparison builder and       *)
(* dashboard aggregation.                                                  *)
(*                                                                         *)
(* Text is modelled as a sequence of lower-case words (the regular        *)
(* expressions of the source are all case-insensitive and anchored on     *)
(* word boundaries); a word is a TLA+ string, and Spell gives its         *)
(* characters where the source works on substrings.                       *)
(***************************************************************************)
EXTENDS Integers, Sequences, FiniteSets, TLC

VARIABLES
  text,        \* classifier harness: the lines of the extracted text handed to _extract_metadata
  now,         \* classifier harness: the wall clock read by datetime.now()
  results,     \* classifier harness: what the first and the latest call on text returned
  doc,         \* scorer harness: the runs of the text of the document to analyze
  analysis,    \* scorer harness: the latest call of _generate_basic_ai_insights, if any:
               \* its text, whether it raised, the insights returned and, when it did
               \* not raise, the score tables local to the three assessments
  request,     \* analyzer harness: the phrases of the question handed to _analyze_enhanced_query
  analysed,    \* analyzer harness: the latest call of _analyze_enhanced_query, if any
  collection,  \* query harness: the documents of the FileStorage of routes.py, as
               \* batches of like documents
  export_collection,  \* query harness: the documents of the FileStorage of export_routes.py
  outcome,     \* query harness: the operation applied to the collection, if any, and
               \* what it returned
  file_storage,       \* store harness: FileStorage.documents of routes.py, a dict, as the
                      \* sequence of its values in the order of insertion
  documents_storage,  \* store harness: QueryService.documents_storage, a list
  next_id,     \* store harness: how many document ids have been issued
  deleted,     \* store harness: the ids of the documents deleted so far
  reply        \* store harness: the latest request, if any: its status, what
               \* FileStorage.delete_document returned, and the store before it

classifyVars == <<text, now, results>>
scoreVars == <<doc, analysis>>
analyzeVars == <<request, analysed>>
queryVars == <<collection, export_collection, outcome>>
storeVars == <<file_storage, documents_storage, next_id, deleted, reply>>
vars == <<text, now, results, doc, analysis, request, analysed, collection, export_collection, outcome,
         file_storage, documents_storage, next_id, deleted, reply>>

\* Python's None, in a field that holds a label or a word otherwise.
None == "None"
\* Python's None, in a field that holds a number or a time otherwise.
NoneNum == -1
\* Python's None, in a field that holds a phrase (a sequence of words) otherwise,
\* and the absence of a capture: a capture has at least one word.
NoPhrase == <<>>

(***************************************************************************)
(* Bounds of the model.                                                    *)
(***************************************************************************)
\* Lines of a classifier text.
MaxLines == 2
\* Clock ticks between calls.
MaxClock == 1
\* Runs of a scored text.
MaxRuns == 2
\* The phrases of a question.
MaxPhrases == 3
\* The batches of a collection.
MaxBatches == 2
\* How many document ids are issued.
MaxIds == 2
\* How many entries the document list of the query service has at most.
MaxStored == 3

(***************************************************************************)
(* Sequence helpers.                                                       *)
(***************************************************************************)
Min(S) == CHOOSE x \in S : \A y \in S : x <= y
Max(S) == CHOOSE x \in S : \A y \in S : x >= y

\* alt occurs in toks starting at position i.
OccursAt(alt, toks, i) ==
  /\ Len(alt) > 0
  /\ i >= 1
  /\ i + Len(alt) - 1 <= Len(toks)
  /\ SubSeq(toks, i, i + Len(alt) - 1) = alt

\* re.search of \b(?:alt1|alt2|...)\b, case-insensitive, in a text of words.
Search(alts, toks) ==
  \E alt \in alts : \E i \in 1..Len(toks) : OccursAt(alt, toks, i)

RECURSIVE Words(_)
\* The words of a text given as its lines.
Words(lines) == IF lines = <<>> THEN <<>> ELSE lines[1] \o Words(Tail(lines))

RECURSIVE Ascending(_)
\* The numbers of a set, in ascending order.
Ascending(S) == IF S = {} THEN <<>> ELSE <<Min(S)>> \o Ascending(S \ {Min(S)})

RECURSIVE Dedup(_)
\* The distinct elements of a sequence, in order of first occurrence.
Dedup(s) ==
  IF s = <<>> THEN <<>>
  ELSE LET d == Dedup(SubSeq(s, 1, Len(s) - 1))
           x == s[Len(s)]
       IN IF \E i \in 1..Len(d) : d[i] = x THEN d ELSE Append(d, x)

(***************************************************************************)
(* Pattern library of the document processor (document_processor.py).      *)
(* A table is a sequence, in the insertion order of the source's dict, of  *)
(* a label and the alternatives of its pattern, each alternative a         *)
(* sequence of words.                                                      *)
(***************************************************************************)
agreement_patterns == <<
  [label |-> "NDA", alts |-> {<<"nda">>, <<"non-disclosure">>, <<"non", "disclosure">>, <<"confidentiality">>}],
  [label |-> "MSA", alts |-> {<<"msa">>, <<"master", "service">>, <<"master", "services">>}],
  [label |-> "Franchise Agreement", alts |-> {<<"franchise">>, <<"franchising">>}],
  [label |-> "Employment Contract", alts |-> {<<"employment">>, <<"employment", "contract">>, <<"work", "contract">>}],
  [label |-> "Lease Agreement", alts |-> {<<"lease">>, <<"leasing">>, <<"rental">>}],
  [label |-> "Partnership Agreement", alts |-> {<<"partnership">>, <<"joint", "venture">>, <<"collaboration">>}],
  [label |-> "Supply Agreement", alts |-> {<<"supply">>, <<"procurement">>, <<"purchase">>}],
  [label |-> "Service Agreement", alts |-> {<<"service">>, <<"consulting">>, <<"advisory">>}],
  [label |-> "Licensing Agreement", alts |-> {<<"license">>, <<"licensing">>, <<"ip", "license">>}] >>

jurisdiction_patterns == <<
  [label |-> "UAE", alts |-> {<<"uae">>, <<"united", "arab", "emirates">>, <<"dubai">>, <<"abu", "dhabi">>, <<"sharjah">>}],
  [label |-> "UK", alts |-> {<<"uk">>, <<"united", "kingdom">>, <<"england">>, <<"wales">>, <<"scotland">>, <<"northern", "ireland">>}],
  [label |-> "USA", alts |-> {<<"usa">>, <<"united", "states">>, <<"us">>, <<"america">>}],
  [label |-> "Delaware", alts |-> {<<"delaware">>, <<"de">>}],
  [label |-> "Singapore", alts |-> {<<"singapore">>, <<"sg">>}],
  [label |-> "Hong Kong", alts |-> {<<"hong", "kong">>, <<"hk">>}],
  [label |-> "Germany", alts |-> {<<"germany">>, <<"de">>, <<"deutschland">>}],
  [label |-> "France", alts |-> {<<"france">>, <<"fr">>, <<"republique", "francaise">>}] >>

industry_patterns == <<
  [label |-> "Technology", alts |-> {<<"technology">>, <<"tech">>, <<"software">>, <<"it">>, <<"information", "technology">>, <<"digital">>}],
  [label |-> "Healthcare", alts |-> {<<"healthcare">>, <<"health">>, <<"medical">>, <<"pharmaceutical">>, <<"biotech">>}],
  [label |-> "Finance", alts |-> {<<"finance">>, <<"financial">>, <<"banking">>, <<"investment">>, <<"insurance">>}],
  [label |-> "Oil & Gas", alts |-> {<<"oil">>, <<"gas">>, <<"petroleum">>, <<"energy">>, <<"hydrocarbon">>}],
  [label |-> "Real Estate", alts |-> {<<"real", "estate">>, <<"property">>, <<"realty">>, <<"construction">>}],
  [label |-> "Manufacturing", alts |-> {<<"manufacturing">>, <<"manufacture">>, <<"production">>, <<"factory">>}],
  [label |-> "Retail", alts |-> {<<"retail">>, <<"commerce">>, <<"trading">>, <<"merchandise">>}],
  [label |-> "Consulting", alts |-> {<<"consulting">>, <<"consultancy">>, <<"advisory">>, <<"advisory", "services">>}] >>

geography_patterns == <<
  [label |-> "Middle East", alts |-> {<<"middle", "east">>, <<"gulf">>, <<"gcc">>, <<"arab">>, <<"arabian">>, <<"persian", "gulf">>}],
  [label |-> "Europe", alts |-> {<<"europe">>, <<"european">>, <<"eu">>, <<"eurozone">>}],
  [label |-> "North America", alts |-> {<<"north", "america">>, <<"north", "american">>, <<"nafta">>}],
  [label |-> "Asia Pacific", alts |-> {<<"asia">>, <<"asian">>, <<"pacific">>, <<"apac">>, <<"asia-pacific">>}],
  [label |-> "Africa", alts |-> {<<"africa">>, <<"african">>, <<"sub-saharan">>, <<"north", "africa">>}],
  [label |-> "South America", alts |-> {<<"south", "america">>, <<"latin", "america">>, <<"latam">>}] >>

\* for label, pattern in table.items(): if re.search(...): return label; return None
FirstMatchLast(patterns, toks) ==
  LET hits == {k \in 1..Len(patterns) : Search(patterns[k].alts, toks)}
  IN IF hits = {} THEN None ELSE patterns[Max(hits)].label

FirstMatch(patterns, toks) ==
  LET hits == {k \in 1..Len(patterns) : Search(patterns[k].alts, toks)}
  IN IF hits = {} THEN None ELSE patterns[Min(hits)].label

_extract_agreement_type(toks) == FirstMatch(agreement_patterns, toks)
_extract_jurisdiction(toks) == FirstMatch(jurisdiction_patterns, toks)
_extract_industry(toks) == FirstMatch(industry_patterns, toks)
_extract_geography(toks) == FirstMatch(geography_patterns, toks)

(***************************************************************************)
(* Characters of the words the model's texts and questions are made of,   *)
(* and of the terms the source looks for as substrings.                    *)
(***************************************************************************)
\* A line break, as a token of a text and as a character.
NL == "\n"

\* The words of the texts and questions, and the terms that the source looks for as
\* substrings: each word, then its characters, then the mark ";;".
Spelling == <<
  "nda", "n", "d", "a", ";;",
  "msa", "m", "s", "a", ";;",
  "master", "m", "a", "s", "t", "e", "r", ";;",
  "service", "s", "e", "r", "v", "i", "c", "e", ";;",
  "lease", "l", "e", "a", "s", "e", ";;",
  "dubai", "d", "u", "b", "a", "i", ";;",
  "de", "d", "e", ";;",
  "software", "s", "o", "f", "t", "w", "a", "r", "e", ";;",
  "consulting", "c", "o", "n", "s", "u", "l", "t", "i", "n", "g", ";;",
  "gulf", "g", "u", "l", "f", ";;",
  "effective", "e", "f", "f", "e", "c", "t", "i", "v", "e", ";;",
  "date", "d", "a", "t", "e", ";;",
  "1/2/2024", "1", "/", "2", "/", "2", "0", "2", "4", ";;",
  "between", "b", "e", "t", "w", "e", "e", "n", ";;",
  "acme", "a", "c", "m", "e", ";;",
  "and", "a", "n", "d", ";;",
  "globex", "g", "l", "o", "b", "e", "x", ";;",
  "party", "p", "a", "r", "t", "y", ";;",
  "a", "a", ";;",
  "b", "b", ";;",
  "foo", "f", "o", "o", ";;",
  "governed", "g", "o", "v", "e", "r", "n", "e", "d", ";;",
  "by", "b", "y", ";;",
  "english", "e", "n", "g", "l", "i", "s", "h", ";;",
  "law", "l", "a", "w", ";;",
  "value", "v", "a", "l", "u", "e", ";;",
  "500", "5", "0", "0", ";;",
  "usd", "u", "s", "d", ";;",
  "end", "e", "n", "d", ";;",
  "contract", "c", "o", "n", "t", "r", "a", "c", "t", ";;",
  "agreement", "a", "g", "r", "e", "e", "m", "e", "n", "t", ";;",
  "terms", "t", "e", "r", "m", "s", ";;",
  "conditions", "c", "o", "n", "d", "i", "t", "i", "o", "n", "s", ";;",
  "clause", "c", "l", "a", "u", "s", "e", ";;",
  "section", "s", "e", "c", "t", "i", "o", "n", ";;",
  "parties", "p", "a", "r", "t", "i", "e", "s", ";;",
  "obligation", "o", "b", "l", "i", "g", "a", "t", "i", "o", "n", ";;",
  "liability", "l", "i", "a", "b", "i", "l", "i", "t", "y", ";;",
  "breach", "b", "r", "e", "a", "c", "h", ";;",
  "termination", "t", "e", "r", "m", "i", "n", "a", "t", "i", "o", "n", ";;",
  "renewal", "r", "e", "n", "e", "w", "a", "l", ";;",
  "amendment", "a", "m", "e", "n", "d", "m", "e", "n", "t", ";;",
  "waiver", "w", "a", "i", "v", "e", "r", ";;",
  "indemnification", "i", "n", "d", "e", "m", "n", "i", "f", "i", "c", "a", "t", "i", "o", "n", ";;",
  "governing law", "g", "o", "v", "e", "r", "n", "i", "n", "g", " ", "l", "a", "w", ";;",
  "payment", "p", "a", "y", "m", "e", "n", "t", ";;",
  "fee", "f", "e", "e", ";;",
  "cost", "c", "o", "s", "t", ";;",
  "price", "p", "r", "i", "c", "e", ";;",
  "amount", "a", "m", "o", "u", "n", "t", ";;",
  "revenue", "r", "e", "v", "e", "n", "u", "e", ";;",
  "profit", "p", "r", "o", "f", "i", "t", ";;",
  "loss", "l", "o", "s", "s", ";;",
  "budget", "b", "u", "d", "g", "e", "t", ";;",
  "investment", "i", "n", "v", "e", "s", "t", "m", "e", "n", "t", ";;",
  "funding", "f", "u", "n", "d", "i", "n", "g", ";;",
  "currency", "c", "u", "r", "r", "e", "n", "c", "y", ";;",
  "dollar", "d", "o", "l", "l", "a", "r", ";;",
  "partnership", "p", "a", "r", "t", "n", "e", "r", "s", "h", "i", "p", ";;",
  "collaboration", "c", "o", "l", "l", "a", "b", "o", "r", "a", "t", "i", "o", "n", ";;",
  "joint venture", "j", "o", "i", "n", "t", " ", "v", "e", "n", "t", "u", "r", "e", ";;",
  "merger", "m", "e", "r", "g", "e", "r", ";;",
  "acquisition", "a", "c", "q", "u", "i", "s", "i", "t", "i", "o", "n", ";;",
  "market", "m", "a", "r", "k", "e", "t", ";;",
  "competition", "c", "o", "m", "p", "e", "t", "i", "t", "i", "o", "n", ";;",
  "strategy", "s", "t", "r", "a", "t", "e", "g", "y", ";;",
  "growth", "g", "r", "o", "w", "t", "h", ";;",
  "expansion", "e", "x", "p", "a", "n", "s", "i", "o", "n", ";;",
  "compliance", "c", "o", "m", "p", "l", "i", "a", "n", "c", "e", ";;",
  "regulation", "r", "e", "g", "u", "l", "a", "t", "i", "o", "n", ";;",
  "legal", "l", "e", "g", "a", "l", ";;",
  "statute", "s", "t", "a", "t", "u", "t", "e", ";;",
  "requirement", "r", "e", "q", "u", "i", "r", "e", "m", "e", "n", "t", ";;",
  "license", "l", "i", "c", "e", "n", "s", "e", ";;",
  "permit", "p", "e", "r", "m", "i", "t", ";;",
  "certification", "c", "e", "r", "t", "i", "f", "i", "c", "a", "t", "i", "o", "n", ";;",
  "accreditation", "a", "c", "c", "r", "e", "d", "i", "t", "a", "t", "i", "o", "n", ";;",
  "audit", "a", "u", "d", "i", "t", ";;",
  "delivery", "d", "e", "l", "i", "v", "e", "r", "y", ";;",
  ".", ".", ";;",
  "show", "s", "h", "o", "w", ";;",
  "find", "f", "i", "n", "d", ";;",
  "list", "l", "i", "s", "t", ";;",
  "agreements", "a", "g", "r", "e", "e", "m", "e", "n", "t", "s", ";;",
  "contracts", "c", "o", "n", "t", "r", "a", "c", "t", "s", ";;",
  "documents", "d", "o", "c", "u", "m", "e", "n", "t", "s", ";;",
  "compare", "c", "o", "m", "p", "a", "r", "e", ";;",
  "risk", "r", "i", "s", "k", ";;",
  "summary", "s", "u", "m", "m", "a", "r", "y", ";;",
  "of", "o", "f", ";;",
  "worth", "w", "o", "r", "t", "h", ";;",
  "jurisdiction", "j", "u", "r", "i", "s", "d", "i", "c", "t", "i", "o", "n", ";;",
  "governing", "g", "o", "v", "e", "r", "n", "i", "n", "g", ";;",
  "industry", "i", "n", "d", "u", "s", "t", "r", "y", ";;",
  "sector", "s", "e", "c", "t", "o", "r", ";;",
  "business", "b", "u", "s", "i", "n", "e", "s", "s", ";;",
  "comparison", "c", "o", "m", "p", "a", "r", "i", "s", "o", "n", ";;",
  "difference", "d", "i", "f", "f", "e", "r", "e", "n", "c", "e", ";;",
  "similarity", "s", "i", "m", "i", "l", "a", "r", "i", "t", "y", ";;",
  "versus", "v", "e", "r", "s", "u", "s", ";;",
  "vs", "v", "s", ";;",
  "among", "a", "m", "o", "n", "g", ";;",
  "analyze", "a", "n", "a", "l", "y", "z", "e", ";;",
  "analysis", "a", "n", "a", "l", "y", "s", "i", "s", ";;",
  "insight", "i", "n", "s", "i", "g", "h", "t", ";;",
  "trend", "t", "r", "e", "n", "d", ";;",
  "pattern", "p", "a", "t", "t", "e", "r", "n", ";;",
  "assess", "a", "s", "s", "e", "s", "s", ";;",
  "evaluate", "e", "v", "a", "l", "u", "a", "t", "e", ";;",
  "summarize", "s", "u", "m", "m", "a", "r", "i", "z", "e", ";;",
  "overview", "o", "v", "e", "r", "v", "i", "e", "w", ";;",
  "brief", "b", "r", "i", "e", "f", ";;",
  "gist", "g", "i", "s", "t", ";;",
  "uk", "u", "k", ";;",
  "usa", "u", "s", "a", ";;",
  "uae", "u", "a", "e", ";;",
  "singapore", "s", "i", "n", "g", "a", "p", "o", "r", "e", ";;",
  "franchise agreement", "f", "r", "a", "n", "c", "h", "i", "s", "e", " ", "a", "g", "r", "e", "e", "m", "e", "n", "t", ";;",
  "employment contract", "e", "m", "p", "l", "o", "y", "m", "e", "n", "t", " ", "c", "o", "n", "t", "r", "a", "c", "t", ";;",
  "lease agreement", "l", "e", "a", "s", "e", " ", "a", "g", "r", "e", "e", "m", "e", "n", "t", ";;",
  "partnership agreement", "p", "a", "r", "t", "n", "e", "r", "s", "h", "i", "p", " ", "a", "g", "r", "e", "e", "m", "e", "n", "t", ";;",
  "supply agreement", "s", "u", "p", "p", "l", "y", " ", "a", "g", "r", "e", "e", "m", "e", "n", "t", ";;",
  "service agreement", "s", "e", "r", "v", "i", "c", "e", " ", "a", "g", "r", "e", "e", "m", "e", "n", "t", ";;",
  "licensing agreement", "l", "i", "c", "e", "n", "s", "i", "n", "g", " ", "a", "g", "r", "e", "e", "m", "e", "n", "t", ";;",
  "delaware", "d", "e", "l", "a", "w", "a", "r", "e", ";;",
  "hong kong", "h", "o", "n", "g", " ", "k", "o", "n", "g", ";;",
  "germany", "g", "e", "r", "m", "a", "n", "y", ";;",
  "france", "f", "r", "a", "n", "c", "e", ";;",
  "technology", "t", "e", "c", "h", "n", "o", "l", "o", "g", "y", ";;",
  "healthcare", "h", "e", "a", "l", "t", "h", "c", "a", "r", "e", ";;",
  "finance", "f", "i", "n", "a", "n", "c", "e", ";;",
  "oil & gas", "o", "i", "l", " ", "&", " ", "g", "a", "s", ";;",
  "real estate", "r", "e", "a", "l", " ", "e", "s", "t", "a", "t", "e", ";;",
  "manufacturing", "m", "a", "n", "u", "f", "a", "c", "t", "u", "r", "i", "n", "g", ";;",
  "retail", "r", "e", "t", "a", "i", "l", ";;",
  "middle east", "m", "i", "d", "d", "l", "e", " ", "e", "a", "s", "t", ";;",
  "europe", "e", "u", "r", "o", "p", "e", ";;",
  "north america", "n", "o", "r", "t", "h", " ", "a", "m", "e", "r", "i", "c", "a", ";;",
  "asia pacific", "a", "s", "i", "a", " ", "p", "a", "c", "i", "f", "i", "c", ";;",
  "africa", "a", "f", "r", "i", "c", "a", ";;",
  "south america", "s", "o", "u", "t", "h", " ", "a", "m", "e", "r", "i", "c", "a", ";;",
  "high", "h", "i", "g", "h", ";;",
  "low", "l", "o", "w", ";;",
  "medium", "m", "e", "d", "i", "u", "m", ";;",
  "compliant", "c", "o", "m", "p", "l", "i", "a", "n", "t", ";;",
  "non", "n", "o", "n", ";;",
  "pending", "p", "e", "n", "d", "i", "n", "g", ";;",
  "all", "a", "l", "l", ";;",
  "the", "t", "h", "e", ";;",
  "", ";;",
  NL, NL, ";;" >>

\* The places of the marks of Spelling.
Marks == SelectSeq([i \in 1..Len(Spelling) |-> i], LAMBDA i : Spelling[i] = ";;")

RECURSIVE SpellFrom(_, _)
\* The characters of the words a to b of Spelling, as a function of the word.
SpellFrom(a, b) ==
  IF a = b
  THEN Spelling[IF a = 1 THEN 1 ELSE Marks[a - 1] + 1]
         :> SubSeq(Spelling, (IF a = 1 THEN 1 ELSE Marks[a - 1] + 1) + 1, Marks[a] - 1)
  ELSE SpellFrom(a, (a + b) \div 2) @@ SpellFrom((a + b) \div 2 + 1, b)

\* The characters of a word.
Spell == SpellFrom(1, Len(Marks))

\* F of the value x: the value is worked out once, whatever the number of its uses.
With(x, F(_)) == F(x)

Letters == {"a", "b", "c", "d", "e", "f", "g", "h", "i", "j", "k", "l", "m",
            "n", "o", "p", "q", "r", "s", "t", "u", "v", "w", "x", "y", "z"}
Digits == {"0", "1", "2", "3", "4", "5", "6", "7", "8", "9"}

DigitValue(c) ==
  CASE c = "0" -> 0 [] c = "1" -> 1 [] c = "2" -> 2 [] c = "3" -> 3 [] c = "4" -> 4
    [] c = "5" -> 5 [] c = "6" -> 6 [] c = "7" -> 7 [] c = "8" -> 8 [] c = "9" -> 9

\* The word is made of characters of the class cls only (and is not empty).
AllIn(w, cls) == Len(Spell[w]) > 0 /\ \A i \in 1..Len(Spell[w]) : Spell[w][i] \in cls

RECURSIVE JoinChars(_)
\* " ".join(words), as characters.
JoinChars(toks) ==
  IF toks = <<>> THEN <<>>
  ELSE IF Len(toks) = 1 THEN Spell[toks[1]]
  ELSE JoinChars(SubSeq(toks, 1, Len(toks) \div 2)) \o <<" ">>
         \o JoinChars(SubSeq(toks, Len(toks) \div 2 + 1, Len(toks)))

(***************************************************************************)
(* Free-form extraction patterns (document_processor.py).                  *)
(***************************************************************************)
\* The character class [A-Za-z\s] of the governing-law capture group.
LawClass == Letters
\* The character class [A-Za-z\s&.,] of the party capture groups.
PartyClass == Letters \cup {"&", ".", ","}

governing_law_heads == <<
  {<<"governed", "by">>, <<"subject", "to">>, <<"in", "accordance", "with">>},
  {<<"applicable", "law">>, <<"governing", "law">>},
  {<<"this", "agreement", "shall", "be", "governed", "by">>, <<"this", "agreement", "shall", "be", "subject", "to">>,
   <<"this", "agreement", "is", "governed", "by">>, <<"this", "agreement", "is", "subject", "to">>,
   <<"this", "contract", "shall", "be", "governed", "by">>, <<"this", "contract", "shall", "be", "subject", "to">>,
   <<"this", "contract", "is", "governed", "by">>, <<"this", "contract", "is", "subject", "to">>} >>

\* (?:law|jurisdiction|legal system)\b
governing_law_ends == {<<"law">>, <<"jurisdiction">>, <<"legal", "system">>}

\* The capture of  head \s+ ([A-Za-z\s]+?) (?:law|jurisdiction|legal system)\b  with the
\* head ending just before position i: the words from i up to the first terminator,
\* at least one, all of letters; NoPhrase when there is none.
LazyUpTo(toks, i, ends, cls) ==
  With({j \in (i + 1)..Len(toks) :
          /\ \E e \in ends : OccursAt(e, toks, j)
          /\ \A k \in i..(j - 1) : AllIn(toks[k], cls)},
       LAMBDA stops : IF stops = {} THEN NoPhrase ELSE SubSeq(toks, i, Min(stops) - 1))

\* re.search(pattern, text): the capture at the leftmost position the pattern matches.
SearchLaw(heads, toks) ==
  With([i \in 1..Len(toks) |->
          {h \in heads : OccursAt(h, toks, i) /\ LazyUpTo(toks, i + Len(h), governing_law_ends, LawClass) # NoPhrase}],
       LAMBDA at :
         With({i \in 1..Len(toks) : at[i] # {}},
              LAMBDA starts :
                IF starts = {} THEN NoPhrase
                ELSE LazyUpTo(toks, Min(starts) + Len(CHOOSE h \in at[Min(starts)] : TRUE),
                              governing_law_ends, LawClass)))

RECURSIVE FirstLawLast(_, _)
\* The mutant of FirstLaw in which a later pattern that matches replaces an earlier one.
FirstLawLast(k, toks) ==
  IF k > Len(governing_law_heads) THEN NoPhrase
  ELSE With(FirstLawLast(k + 1, toks),
            LAMBDA later : IF later # NoPhrase THEN later ELSE SearchLaw(governing_law_heads[k], toks))

RECURSIVE FirstLaw(_, _)
\* for pattern in self.governing_law_patterns: match = re.search(...); if match: return group(1).strip()
FirstLaw(k, toks) ==
  IF k > Len(governing_law_heads) THEN NoPhrase
  ELSE With(SearchLaw(governing_law_heads[k], toks),
            LAMBDA found : IF found # NoPhrase THEN found ELSE FirstLaw(k + 1, toks))

_extract_governing_law(toks) == FirstLaw(1, toks)

\* Heads of the three party patterns; the first captures two names, around "and".
party_heads == <<
  {<<"between">>, <<"by", "and", "between">>},
  {<<"party", "a">>, <<"first", "party">>},
  {<<"party", "b">>, <<"second", "party">>} >>

NoMatch == [end |-> 0, names |-> <<>>]

\* One match of party pattern k starting at position i: [end, names], or NoMatch.
PartyPair(toks, x, q) ==
  IF x = NoPhrase THEN NoMatch
  ELSE IF q <= Len(toks) /\ AllIn(toks[q], PartyClass)
       THEN [end |-> q, names |-> <<x, <<toks[q]>> >>]
       ELSE NoMatch

PartyAfter(k, toks, p) ==
  IF k = 1
  THEN With(LazyUpTo(toks, p, {<<"and">>}, PartyClass),
            LAMBDA x : PartyPair(toks, x, p + Len(x) + 1))
  ELSE IF p <= Len(toks) /\ AllIn(toks[p], PartyClass)
       THEN [end |-> p, names |-> << <<toks[p]>> >>]
       ELSE NoMatch

PartyMatchAt(k, toks, i) ==
  With({h \in party_heads[k] : OccursAt(h, toks, i)},
       LAMBDA hs :
         IF hs = {} THEN NoMatch
         ELSE PartyAfter(k, toks, i + Len(CHOOSE h \in hs : \A g \in hs : Len(g) <= Len(h))))

RECURSIVE PartyFindAll(_, _, _)
\* re.findall(pattern k, text): the names of the non-overlapping matches, left to right.
PartyFindAll(k, toks, i) ==
  With([j \in i..Len(toks) |-> PartyMatchAt(k, toks, j)],
       LAMBDA at :
         With({j \in i..Len(toks) : at[j] # NoMatch},
              LAMBDA starts :
                IF starts = {} THEN <<>>
                ELSE at[Min(starts)].names \o PartyFindAll(k, toks, at[Min(starts)].end + 1)))

\* parties of every pattern, then list(set(parties)): the distinct names.  A set's
\* iteration order is fixed for a process; the model lists them by first occurrence.
RECURSIVE PartiesFrom(_, _)
PartiesFrom(k, toks) ==
  IF k > Len(party_heads) THEN <<>> ELSE PartyFindAll(k, toks, 1) \o PartiesFrom(k + 1, toks)

_extract_parties(toks) == Dedup(PartiesFrom(1, toks))

\* \d{1,2}[/-]\d{1,2}[/-]\d{2,4} followed by a word boundary.
IsDate(w) ==
  With(Spell[w],
       LAMBDA c :
        LET seps == {i \in 1..Len(c) : c[i] \in {"/", "-"}}
        IN /\ Cardinality(seps) = 2
           /\ \A i \in (1..Len(c)) \ seps : c[i] \in Digits
           /\ Min(seps) - 1 \in 1..2
           /\ Max(seps) - Min(seps) - 1 \in 1..2
           /\ Len(c) - Max(seps) \in 2..4)

\* Heads of the two date patterns: the effective date and the expiration date.
date_heads == <<
  {<<"effective", "date">>, <<"commencement", "date">>},
  {<<"expiration", "date">>, <<"termination", "date">>, <<"end", "date">>} >>

\* re.search(date pattern k, text) finds a match.
SearchDate(k, toks) ==
  \E h \in date_heads[k] : \E i \in 1..Len(toks) :
    OccursAt(h, toks, i) /\ i + 2 <= Len(toks) /\ IsDate(toks[i + 2])

\* for pattern in self.date_patterns: if match: return datetime.now()
_extract_effective_date(toks, clock) ==
  IF \E k \in 1..Len(date_heads) : SearchDate(k, toks) THEN clock ELSE NoneNum

_extract_expiration_date(toks) == NoneNum

\* \d{1,3}(?:,\d{3})*(?:\.\d{2})? : the whole word is such a number.
IsNumber(w) ==
  With(Spell[w],
       LAMBDA c :
        LET dots == {i \in 1..Len(c) : c[i] = "."}
            n == IF dots = {} THEN Len(c) ELSE Min(dots) - 1
        IN /\ n >= 1
           /\ c[1] \in Digits
           /\ \A i \in 1..n : IF (n - i) % 4 = 3 /\ i > 1 THEN c[i] = "," ELSE c[i] \in Digits
           /\ n <= 3 \/ \E i \in 1..n : c[i] = ","
           /\ dots # {} => (Len(c) = n + 3 /\ c[n + 1] = "." /\ c[n + 2] \in Digits /\ c[n + 3] \in Digits))

RECURSIVE DigitsValue(_)
\* The number a string of digits and thousands separators denotes.
DigitsValue(c) ==
  IF c = <<>> THEN 0
  ELSE IF c[Len(c)] = "," THEN DigitsValue(SubSeq(c, 1, Len(c) - 1))
  ELSE 10 * DigitsValue(SubSeq(c, 1, Len(c) - 1)) + DigitValue(c[Len(c)])

\* float(value_str.replace(',', '')), in hundredths.
ParseValue(w) ==
  With(Spell[w],
       LAMBDA c :
        LET dots == {i \in 1..Len(c) : c[i] = "."}
            n == IF dots = {} THEN Len(c) ELSE Min(dots) - 1
        IN 100 * DigitsValue(SubSeq(c, 1, n))
             + (IF dots = {} THEN 0 ELSE DigitsValue(SubSeq(c, n + 2, Len(c)))))

value_heads == {"value", "amount", "consideration", "price"}
value_codes == {"usd", "eur", "gbp", "aed", "sar"}

\* ([A-Z]{3})?\b : a word of exactly three letters.
IsCode3(w) == Len(Spell[w]) = 3 /\ AllIn(w, Letters)

\* re.search(value pattern 1): head, number and an optional three-letter code.
SearchValue1(toks) ==
  LET starts == {i \in 1..Len(toks) : toks[i] \in value_heads /\ i + 1 <= Len(toks) /\ IsNumber(toks[i + 1])}
  IN IF starts = {} THEN <<>>
     ELSE LET i == Min(starts)
          IN << ParseValue(toks[i + 1]),
                IF i + 2 <= Len(toks) /\ IsCode3(toks[i + 2]) THEN toks[i + 2] ELSE None >>

\* re.search(value pattern 2): number, an optional three-letter code, and a currency.
SearchValue2(toks) ==
  LET three(i) == i + 2 <= Len(toks) /\ IsCode3(toks[i + 1]) /\ toks[i + 2] \in value_codes
      two(i) == i + 1 <= Len(toks) /\ toks[i + 1] \in value_codes
      starts == {i \in 1..Len(toks) : IsNumber(toks[i]) /\ (three(i) \/ two(i))}
  IN IF starts = {} THEN <<>>
     ELSE LET i == Min(starts)
          IN << ParseValue(toks[i]), IF three(i) THEN toks[i + 1] ELSE None >>

\* for pattern in self.value_patterns: match = re.search(...); if match: return value, currency
_extract_value(toks) ==
  With(SearchValue1(toks),
       LAMBDA first :
         IF first # <<>> THEN first
         ELSE With(SearchValue2(toks),
                   LAMBDA second : IF second # <<>> THEN second ELSE <<NoneNum, None>>))

\* Path(file_path).suffix.lower() of the uploaded file names of the model.
Suffix(file) == CASE file = "a.pdf" -> ".pdf" [] file = "b.docx" -> ".docx" [] OTHER -> ""

\* DocumentProcessor._extract_metadata(file_path, extracted_text), datetime.now() = clock.
_extract_metadata(file, toks, clock) ==
  LET base == [filename |-> file, file_size |-> Len(JoinChars(toks)), file_type |-> Suffix(file),
               upload_date |-> clock,
               agreement_type |-> None, jurisdiction |-> None, industry |-> None, geography |-> None,
               governing_law |-> NoPhrase, parties |-> <<>>, effective_date |-> NoneNum,
               expiration_date |-> NoneNum, value |-> NoneNum, currency |-> None]
  IN IF \A i \in 1..Len(toks) : toks[i] = NL THEN base
     ELSE [base EXCEPT !.agreement_type = _extract_agreement_type(toks),
                       !.jurisdiction = _extract_jurisdiction(toks),
                       !.industry = _extract_industry(toks),
                       !.geography = _extract_geography(toks),
                       !.governing_law = _extract_governing_law(toks),
                       !.parties = _extract_parties(toks),
                       !.effective_date = _extract_effective_date(toks, clock),
                       !.expiration_date = _extract_expiration_date(toks),
                       !.value = _extract_value(toks)[1],
                       !.currency = _extract_value(toks)[2]]

(***************************************************************************)
(* Heuristic scorer (ai_analyzer.py).  A scored text is a sequence of runs *)
(* [phrase, n]: the words of phrase, repeated n times.                     *)
(***************************************************************************)
RECURSIVE SumSeq(_)
SumSeq(s) == IF s = <<>> THEN 0 ELSE s[1] + SumSeq(Tail(s))

\* a occurs in b, both sequences of characters: Python's  a in b.
IsSubstring(a, b) == \E i \in 0..(Len(b) - Len(a)) : SubSeq(b, i + 1, i + Len(a)) = a

\* len(re.findall(pattern, words)) for a pattern \b(?:alt|alt|...)\b.
Hits(alts, toks) == Cardinality({i \in 1..Len(toks) : \E alt \in alts : OccursAt(alt, toks, i)})

\* The matches that straddle the end of p and the start of q in p followed by q, for
\* alternatives of at most two words.
Cross(alts, p, q) == Cardinality({alt \in alts : alt = <<p[Len(p)], q[1]>>})

\* len(re.findall(pattern, text)) for the text of the runs.
FindAllCount(alts, runs) ==
  SumSeq([r \in 1..Len(runs) |->
            runs[r].n * Hits(alts, runs[r].phrase)
            + (runs[r].n - 1) * Cross(alts, runs[r].phrase, runs[r].phrase)
            + (IF r < Len(runs) THEN Cross(alts, runs[r].phrase, runs[r + 1].phrase) ELSE 0)])

\* The matches of all the patterns of one tier, each pattern counted on its own.
TierCount(patterns, runs) == SumSeq([k \in 1..Len(patterns) |-> FindAllCount(patterns[k], runs)])

\* len(text.split())
text_length(runs) ==
  SumSeq([r \in 1..Len(runs) |->
            runs[r].n * Cardinality({i \in 1..Len(runs[r].phrase) : runs[r].phrase[i] # NL})])

\* text.count(c) for a character c.
CharCount(c, runs) ==
  SumSeq([r \in 1..Len(runs) |->
            runs[r].n * SumSeq([i \in 1..Len(runs[r].phrase) |->
                                  Cardinality({j \in 1..Len(Spell[runs[r].phrase[i]]) :
                                                 Spell[runs[r].phrase[i]][j] = c})])])

\* The pairs of words that stand next to each other somewhere in the text.
AdjacentPairs(runs) ==
  UNION {
    {<<runs[r].phrase[i], runs[r].phrase[i + 1]>> : i \in 1..(Len(runs[r].phrase) - 1)}
    \cup (IF runs[r].n > 1 THEN {<<runs[r].phrase[Len(runs[r].phrase)], runs[r].phrase[1]>>} ELSE {})
    \cup (IF r < Len(runs) THEN {<<runs[r].phrase[Len(runs[r].phrase)], runs[r + 1].phrase[1]>>} ELSE {})
    : r \in 1..Len(runs)}

\* For every word, the words and terms that occur in it as substrings.
Contained == [w \in DOMAIN Spell |-> {t \in DOMAIN Spell : IsSubstring(Spell[t], Spell[w])}]

HasBlank(term) == \E i \in 1..Len(Spell[term]) : Spell[term][i] = " "

\* term in text.lower(), for a term of one word or of two words and a blank: the term
\* occurs in a word, or, having a blank, in two words that stand next to each other.
InText(term, runs) ==
  \/ \E r \in 1..Len(runs) : \E i \in 1..Len(runs[r].phrase) :
        term \in Contained[runs[r].phrase[i]]
  \/ /\ HasBlank(term)
     /\ \E pr \in AdjacentPairs(runs) :
          IsSubstring(Spell[term], Spell[pr[1]] \o <<" ">> \o Spell[pr[2]])

risk_patterns ==
  [high_risk |-> <<
     {<<"breach">>, <<"penalty">>, <<"damages">>, <<"indemnification">>, <<"force", "majeure">>},
     {<<"litigation">>, <<"dispute">>, <<"arbitration">>, <<"mediation">>, <<"lawsuit">>},
     {<<"criminal">>, <<"felony">>, <<"misdemeanor">>, <<"prosecution">>, <<"violation">>},
     {<<"sanction">>, <<"fine">>, <<"penalty">>, <<"forfeiture">>, <<"suspension">>},
     {<<"termination">>, <<"cancellation">>, <<"void">>, <<"invalid">>, <<"unenforceable">>} >>,
   medium_risk |-> <<
     {<<"liability">>, <<"warranty">>, <<"guarantee">>, <<"assurance">>, <<"obligation">>},
     {<<"default">>, <<"non-performance">>, <<"failure">>, <<"delay">>, <<"breach">>},
     {<<"regulatory">>, <<"compliance">>, <<"audit">>, <<"inspection">>, <<"requirement">>},
     {<<"confidentiality">>, <<"non-disclosure">>, <<"trade", "secret">>, <<"proprietary">>},
     {<<"intellectual", "property">>, <<"patent">>, <<"copyright">>, <<"trademark">>, <<"license">>} >>,
   low_risk |-> <<
     {<<"cooperation">>, <<"communication">>, <<"meeting">>, <<"review">>, <<"consultation">>},
     {<<"standard">>, <<"template">>, <<"boilerplate">>, <<"routine">>, <<"administrative">>},
     {<<"information">>, <<"notification">>, <<"disclosure">>, <<"reporting">>, <<"update">>},
     {<<"advice">>, <<"guidance">>, <<"recommendation">>, <<"suggestion">>, <<"proposal">>},
     {<<"amendment">>, <<"modification">>, <<"change">>, <<"update">>, <<"revision">>} >>]

compliance_patterns ==
  [high_compliance |-> <<
     {<<"regulatory">>, <<"statutory">>, <<"legal", "requirement">>, <<"mandatory">>, <<"obligatory">>},
     {<<"audit">>, <<"inspection">>, <<"certification">>, <<"accreditation">>, <<"verification">>},
     {<<"data", "protection">>, <<"privacy">>, <<"gdpr">>, <<"ccpa">>, <<"hipaa">>},
     {<<"licensing">>, <<"permitting">>, <<"authorization">>, <<"approval">>, <<"consent">>} >>,
   medium_compliance |-> <<
     {<<"industry", "standard">>, <<"best", "practice">>, <<"guideline">>, <<"recommendation">>},
     {<<"reporting">>, <<"notification">>, <<"disclosure">>, <<"transparency">>},
     {<<"monitoring">>, <<"supervision">>, <<"oversight">>, <<"control">>, <<"review">>} >>,
   low_compliance |-> <<
     {<<"voluntary">>, <<"optional">>, <<"recommended">>, <<"suggested">>, <<"advisory">>},
     {<<"informational">>, <<"educational">>, <<"training">>, <<"awareness">>} >>]

\* The pattern lists local to _assess_business_impact.
impact_patterns ==
  [financial |-> <<
     {<<"revenue">>, <<"profit">>, <<"loss">>, <<"cost">>, <<"expense">>, <<"budget">>, <<"investment">>, <<"funding">>},
     {<<"dollar">>, <<"euro">>, <<"pound">>, <<"currency">>, <<"amount">>, <<"value">>, <<"price">>, <<"fee">>, <<"payment">>} >>,
   operational |-> <<
     {<<"operation">>, <<"process">>, <<"efficiency">>, <<"productivity">>, <<"workflow">>, <<"procedure">>},
     {<<"resource">>, <<"staff">>, <<"personnel">>, <<"equipment">>, <<"infrastructure">>, <<"maintenance">>} >>,
   strategic |-> <<
     {<<"market">>, <<"competition">>, <<"strategy">>, <<"growth">>, <<"expansion">>, <<"partnership">>},
     {<<"merger">>, <<"acquisition">>, <<"joint", "venture">>, <<"alliance">>, <<"collaboration">>, <<"exit">>} >>,
   regulatory |-> <<
     {<<"regulation">>, <<"compliance">>, <<"legal">>, <<"statute">>, <<"law">>, <<"requirement">>, <<"mandatory">>},
     {<<"license">>, <<"permit">>, <<"certification">>, <<"accreditation">>, <<"audit">>, <<"inspection">>} >>]

\* The mutant of Normalize that scales by the number of words instead.
NormalizeByWords(raw, wc) ==
  IF wc > 0 THEN [num |-> raw * wc, den |-> 100, divided |-> TRUE]
  ELSE [num |-> raw, den |-> 1, divided |-> FALSE]

\* A normalized score: raw * (100 / text_length) when the text has words, the raw count
\* otherwise; kept as the fraction num / den, divided telling whether a division was made.
Normalize(raw, wc) ==
  IF wc > 0 THEN [num |-> raw * 100, den |-> wc, divided |-> TRUE]
  ELSE [num |-> raw, den |-> 1, divided |-> FALSE]

\* score > a / b
Exceeds(score, a, b) == score.num * b > a * score.den
\* s < t
Below(s, t) == s.num * t.den < t.num * s.den

\* risk_scores before the normalization step of _assess_risk_level: the raw counts.
risk_counts(runs) ==
  [high |-> TierCount(risk_patterns.high_risk, runs),
   medium |-> TierCount(risk_patterns.medium_risk, runs),
   low |-> TierCount(risk_patterns.low_risk, runs)]

\* The normalization step, applied to every entry of a table of raw counts.
NormalizeAll(counts, wc) == [k \in DOMAIN counts |-> Normalize(counts[k], wc)]

\* risk_scores after the normalization step of _assess_risk_level.
risk_scores(runs) == NormalizeAll(risk_counts(runs), text_length(runs))

\* The mutant of _assess_risk_level with the tiers tested in the other order.
_assess_risk_level_medium_first(runs) ==
  LET sc == risk_scores(runs)
  IN IF Exceeds(sc.medium, 2, 1) \/ Exceeds(sc.high, 3, 2) THEN "Medium"
     ELSE IF Exceeds(sc.high, 3, 1) THEN "High"
     ELSE "Low"

_assess_risk_level(runs) ==
  LET sc == risk_scores(runs)
  IN IF Exceeds(sc.high, 3, 1) THEN "High"
     ELSE IF Exceeds(sc.medium, 2, 1) \/ Exceeds(sc.high, 3, 2) THEN "Medium"
     ELSE "Low"

\* compliance_scores before the normalization step of _assess_compliance_status.
compliance_counts(runs) ==
  [high |-> TierCount(compliance_patterns.high_compliance, runs),
   medium |-> TierCount(compliance_patterns.medium_compliance, runs),
   low |-> TierCount(compliance_patterns.low_compliance, runs)]

\* compliance_scores after the normalization step of _assess_compliance_status.
compliance_scores(runs) == NormalizeAll(compliance_counts(runs), text_length(runs))

\* The mutant of _assess_compliance_status whose first tier is Non-Compliant.
_assess_compliance_status_non_compliant(runs) ==
  LET sc == compliance_scores(runs)
  IN IF Exceeds(sc.high, 5, 2) THEN "Non-Compliant"
     ELSE IF Exceeds(sc.medium, 3, 2) \/ Exceeds(sc.high, 1, 1) THEN "Pending Review"
     ELSE "Compliant"

_assess_compliance_status(runs) ==
  LET sc == compliance_scores(runs)
  IN IF Exceeds(sc.high, 5, 2) THEN "Requires Action"
     ELSE IF Exceeds(sc.medium, 3, 2) \/ Exceeds(sc.high, 1, 1) THEN "Pending Review"
     ELSE "Compliant"

\* impact_scores before the normalization step of _assess_business_impact.
impact_counts(runs) ==
  [financial |-> TierCount(impact_patterns.financial, runs),
   operational |-> TierCount(impact_patterns.operational, runs),
   strategic |-> TierCount(impact_patterns.strategic, runs),
   regulatory |-> TierCount(impact_patterns.regulatory, runs)]

\* impact_scores after the normalization step of _assess_business_impact.
impact_scores(runs) == NormalizeAll(impact_counts(runs), text_length(runs))

\* The largest of the four impact scores.
max_impact(sc) ==
  LET all == {sc.financial, sc.operational, sc.strategic, sc.regulatory}
  IN CHOOSE m \in all : \A o \in all : ~Below(m, o)

\* The mutant of _get_impact_description that tests the regulatory area first.
_get_impact_description_regulatory_first(impact_areas, max_score) ==
  LET has(a) == \E i \in 1..Len(impact_areas) : impact_areas[i] = a
  IN IF has("Regulatory") /\ Exceeds(max_score, 3, 1) THEN "Regulatory compliance critical"
     ELSE IF has("Financial") /\ Exceeds(max_score, 3, 1) THEN "Significant financial implications"
     ELSE IF has("Strategic") /\ Exceeds(max_score, 3, 1) THEN "Strategic business decisions required"
     ELSE IF has("Operational") /\ Exceeds(max_score, 3, 1) THEN "Operational processes affected"
     ELSE IF Exceeds(max_score, 2, 1) THEN "Moderate business impact"
     ELSE "Standard business impact"

_get_impact_description(impact_areas, max_score) ==
  LET has(a) == \E i \in 1..Len(impact_areas) : impact_areas[i] = a
  IN IF has("Financial") /\ Exceeds(max_score, 3, 1) THEN "Significant financial implications"
     ELSE IF has("Strategic") /\ Exceeds(max_score, 3, 1) THEN "Strategic business decisions required"
     ELSE IF has("Regulatory") /\ Exceeds(max_score, 3, 1) THEN "Regulatory compliance critical"
     ELSE IF has("Operational") /\ Exceeds(max_score, 3, 1) THEN "Operational processes affected"
     ELSE IF Exceeds(max_score, 2, 1) THEN "Moderate business impact"
     ELSE "Standard business impact"

\* The label f"{', '.join(impact_areas)} - {description}" as its two parts; the label
\* "Standard business operations" has no areas.
_assess_business_impact(runs) ==
  LET sc == impact_scores(runs)
      mx == max_impact(sc)
      over(a) == IF Exceeds(a[2], 5, 2) THEN <<a[1]>> ELSE <<>>
      named == over(<<"Financial", sc.financial>>) \o over(<<"Operational", sc.operational>>)
                 \o over(<<"Strategic", sc.strategic>>) \o over(<<"Regulatory", sc.regulatory>>)
      areas == IF named # <<>> THEN named
               ELSE IF Exceeds(mx, 3, 2) THEN <<"Moderate">> ELSE <<"Limited">>
  IN IF mx.num = 0 THEN [areas |-> <<>>, description |-> "Standard business operations"]
     ELSE [areas |-> areas, description |-> _get_impact_description(areas, mx)]

\* AIAnalyzer._generate_recommendations(risk_level, compliance_status, business_impact):
\* "Financial" in business_impact holds exactly when the area is one of the label, the
\* descriptions having the word in small letters or only with its area.
_generate_recommendations(risk_level, compliance_status, business_impact) ==
  LET has(a) == \E i \in 1..Len(business_impact.areas) : business_impact.areas[i] = a
      recommendations ==
        (IF risk_level = "High"
           THEN <<"Immediate legal review required", "Implement risk mitigation strategies",
                  "Monitor for potential breaches">>
         ELSE IF risk_level = "Medium"
           THEN <<"Schedule legal review within 30 days", "Review risk factors quarterly">>
         ELSE IF risk_level = "Low" THEN <<"Standard review process">>
         ELSE <<>>)
        \o (IF compliance_status = "Requires Action"
              THEN <<"Urgent compliance review needed", "Implement compliance monitoring">>
            ELSE IF compliance_status = "Pending Review" THEN <<"Schedule compliance review">>
            ELSE IF compliance_status = "Compliant" THEN <<"Maintain current compliance standards">>
            ELSE <<>>)
        \o (IF has("Financial")
              THEN <<"Financial impact assessment required", "Monitor financial metrics closely">>
            ELSE <<>>)
        \o (IF has("Strategic")
              THEN <<"Executive review recommended", "Strategic planning session needed">>
            ELSE <<>>)
        \o (IF has("Regulatory")
              THEN <<"Legal compliance verification", "Regulatory monitoring setup">>
            ELSE <<>>)
  IN IF recommendations = <<>> THEN <<"Standard review process", "Monitor for changes">>
     ELSE SubSeq(recommendations, 1, Min({6, Len(recommendations)}))

legal_terms == <<
  [term |-> "contract", title |-> "Contract"], [term |-> "agreement", title |-> "Agreement"],
  [term |-> "terms", title |-> "Terms"], [term |-> "conditions", title |-> "Conditions"],
  [term |-> "clause", title |-> "Clause"], [term |-> "section", title |-> "Section"],
  [term |-> "party", title |-> "Party"], [term |-> "parties", title |-> "Parties"],
  [term |-> "obligation", title |-> "Obligation"], [term |-> "liability", title |-> "Liability"],
  [term |-> "breach", title |-> "Breach"], [term |-> "termination", title |-> "Termination"],
  [term |-> "renewal", title |-> "Renewal"], [term |-> "amendment", title |-> "Amendment"],
  [term |-> "waiver", title |-> "Waiver"], [term |-> "indemnification", title |-> "Indemnification"],
  [term |-> "governing law", title |-> "Governing Law"] >>

financial_terms == <<
  [term |-> "payment", title |-> "Payment"], [term |-> "fee", title |-> "Fee"],
  [term |-> "cost", title |-> "Cost"], [term |-> "price", title |-> "Price"],
  [term |-> "amount", title |-> "Amount"], [term |-> "revenue", title |-> "Revenue"],
  [term |-> "profit", title |-> "Profit"], [term |-> "loss", title |-> "Loss"],
  [term |-> "budget", title |-> "Budget"], [term |-> "investment", title |-> "Investment"],
  [term |-> "funding", title |-> "Funding"], [term |-> "currency", title |-> "Currency"],
  [term |-> "dollar", title |-> "Dollar"] >>

business_terms == <<
  [term |-> "partnership", title |-> "Partnership"],
  [term |-> "collaboration", title |-> "Collaboration"],
  [term |-> "joint venture", title |-> "Joint Venture"], [term |-> "merger", title |-> "Merger"],
  [term |-> "acquisition", title |-> "Acquisition"], [term |-> "market", title |-> "Market"],
  [term |-> "competition", title |-> "Competition"], [term |-> "strategy", title |-> "Strategy"],
  [term |-> "growth", title |-> "Growth"], [term |-> "expansion", title |-> "Expansion"] >>

compliance_terms == <<
  [term |-> "compliance", title |-> "Compliance"], [term |-> "regulation", title |-> "Regulation"],
  [term |-> "legal", title |-> "Legal"], [term |-> "statute", title |-> "Statute"],
  [term |-> "requirement", title |-> "Requirement"], [term |-> "license", title |-> "License"],
  [term |-> "permit", title |-> "Permit"], [term |-> "certification", title |-> "Certification"],
  [term |-> "accreditation", title |-> "Accreditation"], [term |-> "audit", title |-> "Audit"] >>

\* The set terms of _extract_key_terms before it is cut to eight.
KeyTermsFound(runs) ==
  LET all == legal_terms \o financial_terms \o business_terms \o compliance_terms
      found == {all[i].title : i \in {j \in 1..Len(all) : InText(all[j].term, runs)}}
  IN IF found = {} THEN {"Legal Document", "Agreement"} ELSE found

\* list(terms)[:8]: the order of a set of strings is not fixed, so any eight of more
\* than eight terms may be returned; each set here is one possible return value.
_extract_key_terms(runs) ==
  LET terms == KeyTermsFound(runs)
  IN IF Cardinality(terms) <= 8 THEN {terms}
     ELSE {k \in SUBSET terms : Cardinality(k) = 8}

legal_indicators == <<"contract", "agreement", "terms", "conditions", "clause", "section">>
business_indicators == <<"party", "parties", "obligation", "liability", "payment", "delivery">>

\* The mutant of confidence_sum whose length tiers include their boundaries.
confidence_sum_inclusive(runs, key_terms) ==
  LET n == text_length(runs)
      k == Cardinality(key_terms)
      legal_count == Cardinality({i \in 1..Len(legal_indicators) : InText(legal_indicators[i], runs)})
      business_count == Cardinality({i \in 1..Len(business_indicators) : InText(business_indicators[i], runs)})
  IN 40
     + (IF n >= 2000 THEN 25 ELSE IF n >= 1000 THEN 20 ELSE IF n >= 500 THEN 15 ELSE IF n >= 200 THEN 10 ELSE 5)
     + (IF k > 8 THEN 20 ELSE IF k > 5 THEN 15 ELSE IF k > 3 THEN 10 ELSE IF k > 1 THEN 5 ELSE 0)
     + (IF legal_count > 3 THEN 15 ELSE IF legal_count > 1 THEN 10 ELSE 0)
     + (IF business_count > 2 THEN 10 ELSE IF business_count > 0 THEN 5 ELSE 0)
     + (IF CharCount(".", runs) > 10 THEN 5 ELSE 0)
     + (IF CharCount(NL, runs) > 5 THEN 5 ELSE 0)

\* The score of _calculate_confidence_score before the cap, in hundredths.
confidence_sum(runs, key_terms) ==
  LET n == text_length(runs)
      k == Cardinality(key_terms)
      legal_count == Cardinality({i \in 1..Len(legal_indicators) : InText(legal_indicators[i], runs)})
      business_count == Cardinality({i \in 1..Len(business_indicators) : InText(business_indicators[i], runs)})
  IN 40
     + (IF n > 2000 THEN 25 ELSE IF n > 1000 THEN 20 ELSE IF n > 500 THEN 15 ELSE IF n > 200 THEN 10 ELSE 5)
     + (IF k > 8 THEN 20 ELSE IF k > 5 THEN 15 ELSE IF k > 3 THEN 10 ELSE IF k > 1 THEN 5 ELSE 0)
     + (IF legal_count > 3 THEN 15 ELSE IF legal_count > 1 THEN 10 ELSE 0)
     + (IF business_count > 2 THEN 10 ELSE IF business_count > 0 THEN 5 ELSE 0)
     + (IF CharCount(".", runs) > 10 THEN 5 ELSE 0)
     + (IF CharCount(NL, runs) > 5 THEN 5 ELSE 0)

\* The mutant of _calculate_confidence_score that returns the score as it is.
_calculate_confidence_score_uncapped(runs, key_terms) == confidence_sum(runs, key_terms)

\* return min(score, 0.95), in hundredths.
_calculate_confidence_score(runs, key_terms) == Min({confidence_sum(runs, key_terms), 95})

\* The AIInsights of the except branch of _generate_basic_ai_insights; the mutant
\* keeps the risk the text has.
FallbackInsightsMedium ==
  [summary |-> <<"Basic analysis completed">>,
   key_terms |-> {"Legal", "Document"},
   risk_assessment |-> "Medium",
   compliance_status |-> "Compliant",
   business_impact |-> [areas |-> <<>>, description |-> "Standard impact"],
   recommendations |-> <<"Review manually">>,
   confidence_score |-> 30,
   sentiment_analysis |-> "Unknown"]

FallbackInsights ==
  [summary |-> <<"Basic analysis completed">>,
   key_terms |-> {"Legal", "Document"},
   risk_assessment |-> "Low",
   compliance_status |-> "Compliant",
   business_impact |-> [areas |-> <<>>, description |-> "Standard impact"],
   recommendations |-> <<"Review manually">>,
   confidence_score |-> 30,
   sentiment_analysis |-> "Unknown"]

\* AIAnalyzer._generate_basic_ai_insights(document): key_terms is the return value of
\* _extract_key_terms, raised tells whether a statement of the try block raised.
_generate_basic_ai_insights(runs, filename, key_terms, raised) ==
  IF raised THEN FallbackInsights
  ELSE [summary |-> <<"Document analyzed:", filename>>,
        key_terms |-> key_terms,
        risk_assessment |-> _assess_risk_level(runs),
        compliance_status |-> _assess_compliance_status(runs),
        business_impact |-> _assess_business_impact(runs),
        recommendations |-> <<"Document processed successfully">>,
        confidence_score |-> _calculate_confidence_score(runs, key_terms),
        sentiment_analysis |-> "Neutral"]

(***************************************************************************)
(* Documents (document_processor.py, models/document.py).                  *)
(***************************************************************************)
\* phrase, n times over.
Repeat(phrase, n) == [i \in 1..(n * Len(phrase)) |-> phrase[((i - 1) % Len(phrase)) + 1]]

RECURSIVE Expand(_)
\* The words of the text of the runs.
Expand(runs) == IF runs = <<>> THEN <<>> ELSE Repeat(runs[1].phrase, runs[1].n) \o Expand(Tail(runs))

\* len(text), the words of the text being joined by single blanks.
TextChars(runs) ==
  LET words == SumSeq([r \in 1..Len(runs) |-> runs[r].n * Len(runs[r].phrase)])
      chars == SumSeq([r \in 1..Len(runs) |->
                         runs[r].n * SumSeq([i \in 1..Len(runs[r].phrase) |-> Len(Spell[runs[r].phrase[i]])])])
  IN IF words = 0 THEN 0 ELSE chars + words - 1

\* DocumentProcessor.process_document(file_path, file_content), the text extracted from
\* the content being that of the runs and datetime.now() being clock; key_terms and
\* raised as in _generate_basic_ai_insights.  ai_insights is optional: a sequence of
\* no or one element.
process_document(file, runs, clock, key_terms, raised) ==
  LET ai_insights == _generate_basic_ai_insights(runs, file, key_terms, raised)
  IN [metadata |-> _extract_metadata(file, Expand(runs), clock),
      extracted_text |-> runs,
      processing_status |-> "completed",
      ai_insights |-> <<ai_insights>>,
      confidence_score |-> ai_insights.confidence_score]

\* str.lower() of the values of the enumerations AgreementType, Jurisdiction, Industry
\* and Geography that the classifier assigns, and of the file types.
Lower ==
  "NDA" :> "nda" @@
  "MSA" :> "msa" @@
  "Franchise Agreement" :> "franchise agreement" @@
  "Employment Contract" :> "employment contract" @@
  "Lease Agreement" :> "lease agreement" @@
  "Partnership Agreement" :> "partnership agreement" @@
  "Supply Agreement" :> "supply agreement" @@
  "Service Agreement" :> "service agreement" @@
  "Licensing Agreement" :> "licensing agreement" @@
  "UAE" :> "uae" @@
  "UK" :> "uk" @@
  "USA" :> "usa" @@
  "Delaware" :> "delaware" @@
  "Singapore" :> "singapore" @@
  "Hong Kong" :> "hong kong" @@
  "Germany" :> "germany" @@
  "France" :> "france" @@
  "Technology" :> "technology" @@
  "Healthcare" :> "healthcare" @@
  "Finance" :> "finance" @@
  "Oil & Gas" :> "oil & gas" @@
  "Real Estate" :> "real estate" @@
  "Manufacturing" :> "manufacturing" @@
  "Retail" :> "retail" @@
  "Consulting" :> "consulting" @@
  "Middle East" :> "middle east" @@
  "Europe" :> "europe" @@
  "North America" :> "north america" @@
  "Asia Pacific" :> "asia pacific" @@
  "Africa" :> "africa" @@
  "South America" :> "south america" @@
  ".pdf" :> ".pdf" @@ ".PDF" :> ".pdf" @@ ".docx" :> ".docx" @@ ".DOCX" :> ".docx" @@ "" :> ""

(***************************************************************************)
(* Query analyzer (query_service.py).  A pattern is the sequence of the    *)
(* elements of its regular expression: "lit", one of some alternatives,    *)
(* each a sequence of words, tried in the order written; "opt", the same,  *)
(* optional; "pre", a last alternative with no word boundary after it,     *)
(* which a word matches by starting with it; "word", the capture (\w+);    *)
(* "num", the capture of a number; "empty", the lazy capture ([^.]*?)\b,   *)
(* which is empty before a word.  groups is the number of its captures.    *)
(* The words of a question are words of \w characters or ".", but for a     *)
(* number, which stands after "worth" or "valued at" and before a word.    *)
(***************************************************************************)
query_patterns == <<
  [intent |-> "agreement_type", patterns |-> <<
     [groups |-> 1, elems |-> <<
        [k |-> "lit", alts |-> <<<<"which">>, <<"what">>, <<"show">>, <<"find">>, <<"list">>>>],
        [k |-> "lit", alts |-> <<<<"agreement">>, <<"agreements">>, <<"contract">>, <<"contracts">>, <<"document">>, <<"documents">>>>],
        [k |-> "lit", alts |-> <<<<"are">>, <<"is">>>>],
        [k |-> "opt", alts |-> <<<<"of">>>>],
        [k |-> "lit", alts |-> <<<<"type">>>>],
        [k |-> "word"] >>],
     [groups |-> 1, elems |-> <<
        [k |-> "lit", alts |-> <<<<"agreement">>, <<"agreements">>, <<"contract">>, <<"contracts">>>>],
        [k |-> "opt", alts |-> <<<<"of">>>>],
        [k |-> "lit", alts |-> <<<<"type">>>>],
        [k |-> "word"] >>],
     [groups |-> 1, elems |-> <<
        [k |-> "lit", alts |-> <<<<"show">>, <<"find">>, <<"list">>>>],
        [k |-> "word"],
        [k |-> "pre", alts |-> <<<<"agreement">>, <<"contract">>>>] >>],
     [groups |-> 1, elems |-> <<
        [k |-> "lit", alts |-> <<<<"all">>, <<"every">>, <<"any">>>>],
        [k |-> "word"],
        [k |-> "pre", alts |-> <<<<"agreement">>, <<"contract">>>>] >>],
     [groups |-> 1, elems |-> <<
        [k |-> "word"],
        [k |-> "pre", alts |-> <<<<"agreement">>, <<"contract">>>>] >>] >>],
  [intent |-> "jurisdiction", patterns |-> <<
     [groups |-> 1, elems |-> <<
        [k |-> "lit", alts |-> <<<<"which">>, <<"what">>, <<"show">>, <<"find">>, <<"list">>>>],
        [k |-> "lit", alts |-> <<<<"agreement">>, <<"agreements">>, <<"contract">>, <<"contracts">>, <<"document">>, <<"documents">>>>],
        [k |-> "lit", alts |-> <<<<"are">>, <<"is">>>>],
        [k |-> "lit", alts |-> <<<<"governed", "by">>, <<"subject", "to">>>>],
        [k |-> "word"] >>],
     [groups |-> 1, elems |-> <<
        [k |-> "lit", alts |-> <<<<"agreement">>, <<"agreements">>, <<"contract">>, <<"contracts">>>>],
        [k |-> "lit", alts |-> <<<<"governed", "by">>, <<"subject", "to">>>>],
        [k |-> "word"] >>],
     [groups |-> 1, elems |-> <<
        [k |-> "lit", alts |-> <<<<"show">>, <<"find">>, <<"list">>>>],
        [k |-> "lit", alts |-> <<<<"document">>, <<"documents">>>>],
        [k |-> "lit", alts |-> <<<<"in">>, <<"from">>>>],
        [k |-> "word"] >>],
     [groups |-> 1, elems |-> <<
        [k |-> "word"],
        [k |-> "pre", alts |-> <<<<"law">>, <<"jurisdiction">>, <<"governing">>>>] >>],
     [groups |-> 1, elems |-> <<
        [k |-> "lit", alts |-> <<<<"document">>, <<"documents">>>>],
        [k |-> "lit", alts |-> <<<<"in">>, <<"from">>>>],
        [k |-> "word"] >>] >>],
  [intent |-> "industry", patterns |-> <<
     [groups |-> 1, elems |-> <<
        [k |-> "lit", alts |-> <<<<"which">>, <<"what">>, <<"show">>, <<"find">>, <<"list">>>>],
        [k |-> "lit", alts |-> <<<<"agreement">>, <<"agreements">>, <<"contract">>, <<"contracts">>, <<"document">>, <<"documents">>>>],
        [k |-> "lit", alts |-> <<<<"are">>, <<"is">>>>],
        [k |-> "lit", alts |-> <<<<"in">>, <<"related", "to">>>>],
        [k |-> "opt", alts |-> <<<<"the">>>>],
        [k |-> "word"] >>],
     [groups |-> 1, elems |-> <<
        [k |-> "lit", alts |-> <<<<"agreement">>, <<"agreements">>, <<"contract">>, <<"contracts">>>>],
        [k |-> "lit", alts |-> <<<<"in">>, <<"related", "to">>>>],
        [k |-> "opt", alts |-> <<<<"the">>>>],
        [k |-> "word"] >>],
     [groups |-> 1, elems |-> <<
        [k |-> "word"],
        [k |-> "pre", alts |-> <<<<"industry">>, <<"sector">>, <<"business">>>>] >>],
     [groups |-> 1, elems |-> <<
        [k |-> "lit", alts |-> <<<<"document">>, <<"documents">>>>],
        [k |-> "lit", alts |-> <<<<"in">>, <<"related", "to">>>>],
        [k |-> "word"] >>] >>],
  [intent |-> "value_range", patterns |-> <<
     [groups |-> 2, elems |-> <<
        [k |-> "lit", alts |-> <<<<"which">>, <<"what">>, <<"show">>, <<"find">>, <<"list">>>>],
        [k |-> "lit", alts |-> <<<<"agreement">>, <<"agreements">>, <<"contract">>, <<"contracts">>, <<"document">>, <<"documents">>>>],
        [k |-> "lit", alts |-> <<<<"are">>, <<"is">>>>],
        [k |-> "lit", alts |-> <<<<"worth">>, <<"valued", "at">>>>],
        [k |-> "num"],
        [k |-> "word"] >>],
     [groups |-> 2, elems |-> <<
        [k |-> "lit", alts |-> <<<<"agreement">>, <<"agreements">>, <<"contract">>, <<"contracts">>>>],
        [k |-> "lit", alts |-> <<<<"worth">>, <<"valued", "at">>>>],
        [k |-> "num"],
        [k |-> "word"] >>],
     [groups |-> 1, elems |-> <<
        [k |-> "lit", alts |-> <<<<"document">>, <<"documents">>>>],
        [k |-> "lit", alts |-> <<<<"worth">>, <<"valued", "at">>>>],
        [k |-> "num"] >>] >>],
  [intent |-> "date_range", patterns |-> <<
     [groups |-> 1, elems |-> <<
        [k |-> "lit", alts |-> <<<<"which">>, <<"what">>, <<"show">>, <<"find">>, <<"list">>>>],
        [k |-> "lit", alts |-> <<<<"agreement">>, <<"agreements">>, <<"contract">>, <<"contracts">>, <<"document">>, <<"documents">>>>],
        [k |-> "lit", alts |-> <<<<"are">>, <<"is">>>>],
        [k |-> "lit", alts |-> <<<<"signed">>, <<"effective">>, <<"expired">>>>],
        [k |-> "lit", alts |-> <<<<"in">>, <<"during">>, <<"between">>>>],
        [k |-> "word"] >>],
     [groups |-> 1, elems |-> <<
        [k |-> "lit", alts |-> <<<<"agreement">>, <<"agreements">>, <<"contract">>, <<"contracts">>>>],
        [k |-> "lit", alts |-> <<<<"signed">>, <<"effective">>, <<"expired">>>>],
        [k |-> "lit", alts |-> <<<<"in">>, <<"during">>, <<"between">>>>],
        [k |-> "word"] >>],
     [groups |-> 1, elems |-> <<
        [k |-> "lit", alts |-> <<<<"document">>, <<"documents">>>>],
        [k |-> "lit", alts |-> <<<<"signed">>, <<"effective">>, <<"expired">>>>],
        [k |-> "lit", alts |-> <<<<"in">>, <<"during">>, <<"between">>>>],
        [k |-> "word"] >>] >>],
  [intent |-> "comparison", patterns |-> <<
     [groups |-> 1, elems |-> <<
        [k |-> "lit", alts |-> <<<<"compare">>, <<"comparison">>, <<"difference">>, <<"similarity">>, <<"versus">>, <<"vs">>>>],
        [k |-> "lit", alts |-> <<<<"between">>, <<"among">>, <<"across">>>>],
        [k |-> "empty"] >>],
     [groups |-> 1, elems |-> <<
        [k |-> "lit", alts |-> <<<<"how", "do">>, <<"what", "are", "the", "differences">>, <<"similarities">>>>],
        [k |-> "lit", alts |-> <<<<"between">>, <<"among">>, <<"across">>>>],
        [k |-> "empty"] >>],
     [groups |-> 1, elems |-> <<
        [k |-> "lit", alts |-> <<<<"compare">>, <<"comparison">>, <<"difference">>, <<"similarity">>>>],
        [k |-> "word"] >>] >>],
  [intent |-> "risk_analysis", patterns |-> <<
     [groups |-> 0, elems |-> <<
        [k |-> "lit", alts |-> <<<<"risk">>, <<"risky">>, <<"high", "risk">>, <<"low", "risk">>>>],
        [k |-> "lit", alts |-> <<<<"agreement">>, <<"agreements">>, <<"contract">>, <<"contracts">>, <<"document">>, <<"documents">>>>] >>],
     [groups |-> 0, elems |-> <<
        [k |-> "lit", alts |-> <<<<"which">>, <<"what">>>>],
        [k |-> "lit", alts |-> <<<<"agreement">>, <<"agreements">>, <<"contract">>, <<"contracts">>>>],
        [k |-> "lit", alts |-> <<<<"have">>, <<"contain">>>>],
        [k |-> "lit", alts |-> <<<<"high">>, <<"low">>>>],
        [k |-> "lit", alts |-> <<<<"risk">>>>] >>],
     [groups |-> 0, elems |-> <<
        [k |-> "lit", alts |-> <<<<"analyze">>, <<"analysis">>>>],
        [k |-> "lit", alts |-> <<<<"risk">>, <<"risks">>>>] >>],
     [groups |-> 0, elems |-> <<
        [k |-> "lit", alts |-> <<<<"risk", "assessment">>, <<"risk", "analysis">>>>] >>] >>],
  [intent |-> "compliance_check", patterns |-> <<
     [groups |-> 0, elems |-> <<
        [k |-> "lit", alts |-> <<<<"compliance">>, <<"compliant">>, <<"noncompliant">>, <<"non", "compliant">>>>],
        [k |-> "lit", alts |-> <<<<"agreement">>, <<"agreements">>, <<"contract">>, <<"contracts">>, <<"document">>, <<"documents">>>>] >>],
     [groups |-> 0, elems |-> <<
        [k |-> "lit", alts |-> <<<<"which">>, <<"what">>>>],
        [k |-> "lit", alts |-> <<<<"agreement">>, <<"agreements">>, <<"contract">>, <<"contracts">>>>],
        [k |-> "lit", alts |-> <<<<"are">>, <<"is">>>>],
        [k |-> "lit", alts |-> <<<<"compliant">>, <<"noncompliant">>, <<"non", "compliant">>>>] >>],
     [groups |-> 0, elems |-> <<
        [k |-> "lit", alts |-> <<<<"compliance", "check">>, <<"compliance", "status">>>>] >>],
     [groups |-> 0, elems |-> <<
        [k |-> "lit", alts |-> <<<<"analyze">>, <<"analysis">>>>],
        [k |-> "lit", alts |-> <<<<"compliance">>>>] >>] >>],
  [intent |-> "trend_analysis", patterns |-> <<
     [groups |-> 1, elems |-> <<
        [k |-> "lit", alts |-> <<<<"trend">>, <<"trends">>, <<"pattern">>, <<"patterns">>>>],
        [k |-> "lit", alts |-> <<<<"in">>, <<"of">>, <<"across">>>>],
        [k |-> "word"] >>],
     [groups |-> 0, elems |-> <<
        [k |-> "lit", alts |-> <<<<"analyze">>, <<"analysis">>>>],
        [k |-> "lit", alts |-> <<<<"trend">>, <<"trends">>, <<"pattern">>, <<"patterns">>>>] >>],
     [groups |-> 0, elems |-> <<
        [k |-> "lit", alts |-> <<<<"what", "are", "the", "trend">>, <<"what", "are", "the", "trends">>, <<"pattern">>, <<"patterns">>>>] >>],
     [groups |-> 0, elems |-> <<
        [k |-> "lit", alts |-> <<<<"trend", "analysis">>, <<"pattern", "analysis">>>>] >>] >>],
  [intent |-> "summary_request", patterns |-> <<
     [groups |-> 1, elems |-> <<
        [k |-> "lit", alts |-> <<<<"summarize">>, <<"summary">>, <<"overview">>, <<"summary", "of">>>>],
        [k |-> "word"] >>],
     [groups |-> 0, elems |-> <<
        [k |-> "lit", alts |-> <<<<"give", "me", "a", "summary">>, <<"overview">>>>] >>],
     [groups |-> 0, elems |-> <<
        [k |-> "lit", alts |-> <<<<"what", "is", "the", "summary">>, <<"overview">>>>] >>] >>] >>

IsPrefix(a, b) == Len(a) <= Len(b) /\ SubSeq(b, 1, Len(a)) = a
IsSuffix(a, b) == Len(a) <= Len(b) /\ SubSeq(b, Len(b) - Len(a) + 1, Len(b)) = a

WordChars == Letters \cup Digits \cup {"_"}
\* \w+ matches the whole word.
IsWord(w) == AllIn(w, WordChars)

\* \d+(?:,\d{3})*(?:\.\d{2})? matches the whole word.
IsQNumber(w) ==
  With(Spell[w],
       LAMBDA c :
        LET dots == {i \in 1..Len(c) : c[i] = "."}
            n == IF dots = {} THEN Len(c) ELSE Min(dots) - 1
        IN /\ n >= 1
           /\ c[1] \in Digits
           /\ \A i \in 1..n : c[i] \in Digits \cup {","}
           /\ \A i \in 1..n : c[i] = "," =>
                /\ i + 3 <= n
                /\ \A j \in (i + 1)..(i + 3) : c[j] \in Digits
                /\ i + 3 = n \/ c[i + 4] = ","
           /\ dots # {} => (Len(c) = n + 3 /\ c[n + 2] \in Digits /\ c[n + 3] \in Digits))

NoFit == [ok |-> FALSE, end |-> 0, caps |-> <<>>]

\* The match first when it is one, other when it is not.
OrElse(first, other) == IF first.ok THEN first ELSE other

\* The match rest with the capture c before its captures.
Capture(c, rest) == IF rest.ok THEN [rest EXCEPT !.caps = <<c>> \o @] ELSE NoFit

\* The word fits (\w+), the number of a value, or the empty capture before a word.
Fits(kind, w) ==
  CASE kind = "word" -> IsWord(w)
    [] kind = "num" -> IsQNumber(w)
    [] kind = "empty" -> Spell[w][1] \in WordChars

RECURSIVE MatchFrom(_, _, _, _)
RECURSIVE TryAlts(_, _, _, _, _)
\* The match of the elements from the k-th on, at word i: whether there is one, the
\* word after it, and its captures.  The first one in the regular expression's order
\* of preference is taken.
MatchFrom(elems, k, toks, i) ==
  IF k > Len(elems) THEN [ok |-> TRUE, end |-> i, caps |-> <<>>]
  ELSE CASE elems[k].k = "lit" -> TryAlts(elems, k, toks, i, 1)
         [] elems[k].k = "opt" -> OrElse(TryAlts(elems, k, toks, i, 1), MatchFrom(elems, k + 1, toks, i))
         [] elems[k].k = "pre" ->
              IF i <= Len(toks)
                 /\ \E a \in 1..Len(elems[k].alts) : IsPrefix(Spell[elems[k].alts[a][1]], Spell[toks[i]])
              THEN MatchFrom(elems, k + 1, toks, i + 1) ELSE NoFit
         [] elems[k].k \in {"word", "num", "empty"} ->
              IF i <= Len(toks) /\ Fits(elems[k].k, toks[i])
              THEN Capture(IF elems[k].k = "empty" THEN <<>> ELSE <<toks[i]>>,
                           MatchFrom(elems, k + 1, toks, IF elems[k].k = "empty" THEN i ELSE i + 1))
              ELSE NoFit

TryAlts(elems, k, toks, i, a) ==
  IF a > Len(elems[k].alts) THEN NoFit
  ELSE OrElse(IF OccursAt(elems[k].alts[a], toks, i)
              THEN MatchFrom(elems, k + 1, toks, i + Len(elems[k].alts[a])) ELSE NoFit,
              TryAlts(elems, k, toks, i, a + 1))

\* What re.findall returns for one match: the match itself, as a string, when the
\* pattern has no group, the capture when it has one, the tuple of the captures when
\* it has two.  A string is kept as its words.
MatchValue(pattern, toks, i, r) ==
  IF pattern.groups = 0 THEN [tuple |-> FALSE, parts |-> <<SubSeq(toks, i, r.end - 1)>>]
  ELSE [tuple |-> pattern.groups > 1, parts |-> r.caps]

RECURSIVE FindAll(_, _, _)
\* re.findall(pattern, question_lower, re.IGNORECASE), from word i on.
FindAll(pattern, toks, i) ==
  With({j \in i..Len(toks) : MatchFrom(pattern.elems, 1, toks, j).ok},
       LAMBDA starts :
         IF starts = {} THEN <<>>
         ELSE With(Min(starts), LAMBDA j :
                With(MatchFrom(pattern.elems, 1, toks, j), LAMBDA r :
                  <<MatchValue(pattern, toks, j, r)>> \o FindAll(pattern, toks, r.end))))

\* The matches an intent adds to entities: those of its first pattern that has any
\* (the inner loop ends at the break).
IntentMatches(t, toks) ==
  With([p \in 1..Len(query_patterns[t].patterns) |-> FindAll(query_patterns[t].patterns[p], toks, 1)],
       LAMBDA found :
         With({p \in 1..Len(found) : found[p] # <<>>},
              LAMBDA hit : IF hit = {} THEN <<>> ELSE found[Min(hit)]))

RECURSIVE EntitiesNotEmpty(_, _)
\* The mutant of Entities that leaves out the matches whose captures are all empty.
EntitiesNotEmpty(t, toks) ==
  IF t = 0 THEN <<>>
  ELSE EntitiesNotEmpty(t - 1, toks)
         \o SelectSeq(IntentMatches(t, toks),
                      LAMBDA e : \E i \in 1..Len(e.parts) : e.parts[i] # <<>>)

RECURSIVE Entities(_, _)
\* entities after the outer loop has gone through the intents up to t.
Entities(t, toks) == IF t = 0 THEN <<>> ELSE Entities(t - 1, toks) \o IntentMatches(t, toks)

comparison_keywords == <<"compare", "comparison", "difference", "similarity", "versus", "vs", "between", "among">>
analysis_keywords == <<"analyze", "analysis", "insight", "trend", "pattern", "risk", "compliance", "assess", "evaluate">>
summary_keywords == <<"summarize", "summary", "overview", "brief", "gist">>

\* any(keyword in question_lower for keyword in keywords)
AnyKeyword(keywords, toks) ==
  \E k \in 1..Len(keywords) : \E i \in 1..Len(toks) : keywords[k] \in Contained[toks[i]]

\* The intent the loop leaves in the variable intent: every intent with a match assigns
\* to it in turn, the break leaving the inner loop only.
IntentOf(matched) == IF matched = {} THEN "general_search" ELSE query_patterns[Max(matched)].intent

\* The record _analyze_enhanced_query returns, of the intents with a match, the entities
\* and the three flags.
QueryAnalysis(toks, matched, entities, comparison_requested, analysis_requested, summary_requested) ==
  [intent |-> IntentOf(matched),
   entities |-> entities,
   confidence |-> Min({100, 30 + (IF entities # <<>> THEN 30 ELSE 0)
                               + (IF matched # {} THEN 20 ELSE 0)
                               + (IF comparison_requested \/ analysis_requested THEN 20 ELSE 0)}),
   comparison_requested |-> comparison_requested,
   analysis_requested |-> analysis_requested,
   summary_requested |-> summary_requested,
   complexity |-> IF comparison_requested \/ analysis_requested \/ summary_requested THEN "high"
                  ELSE IF Len(toks) > 8 \/ Len(entities) > 2 THEN "medium"
                  ELSE "low"]

\* An intent of names has a match.
HasIntent(matched, names) == \E t \in matched : query_patterns[t].intent \in names

\* QueryService._analyze_enhanced_query(question)
_analyze_enhanced_query(toks) ==
  With({t \in 1..Len(query_patterns) : IntentMatches(t, toks) # <<>>},
       LAMBDA matched :
         QueryAnalysis(toks, matched, Entities(Len(query_patterns), toks),
                       HasIntent(matched, {"comparison"}) \/ AnyKeyword(comparison_keywords, toks),
                       HasIntent(matched, {"risk_analysis", "compliance_check", "trend_analysis"})
                         \/ AnyKeyword(analysis_keywords, toks),
                       HasIntent(matched, {"summary_request"}) \/ AnyKeyword(summary_keywords, toks)))

(***************************************************************************)
(* Relevance ranker (query_service.py).  Scores are counted in halves of a *)
(* point: the source adds 0.5 for a word in common and for a text of more  *)
(* than 500 characters.                                                    *)
(***************************************************************************)
\* The filters of a request: a value per key, None or NoneNum where the key is absent
\* or its value is empty.  date_from and date_to are the times their ISO strings parse
\* to; a string that does not parse leaves every document in, as an absent one does.
NoFilters ==
  [agreement_type |-> None, jurisdiction |-> None, industry |-> None, geography |-> None,
   file_type |-> None, date_from |-> NoneNum, date_to |-> NoneNum]

\* any(filters.values())
AnyFilter(filters) ==
  \/ \E k \in {"agreement_type", "jurisdiction", "industry", "geography", "file_type"} : filters[k] # None
  \/ filters.date_from # NoneNum
  \/ filters.date_to # NoneNum

\* The mutant that leaves out a document lacking a field the filters set.
include_doc_with_field(d, filters) ==
  LET m == d.metadata
  IN /\ ~(filters.agreement_type # None /\ m.agreement_type # filters.agreement_type)
     /\ ~(filters.jurisdiction # None /\ m.jurisdiction # filters.jurisdiction)
     /\ ~(filters.industry # None /\ m.industry # filters.industry)
     /\ ~(filters.geography # None /\ m.geography # filters.geography)
     /\ ~(filters.file_type # None /\ Lower[m.file_type] # Lower[filters.file_type])
     /\ ~(filters.date_from # NoneNum /\ m.upload_date # NoneNum /\ m.upload_date < filters.date_from)
     /\ ~(filters.date_to # NoneNum /\ m.upload_date # NoneNum /\ m.upload_date > filters.date_to)

\* Whether _apply_filters leaves the document in.
include_doc(d, filters) ==
  LET m == d.metadata
  IN /\ ~(filters.agreement_type # None /\ m.agreement_type # None /\ m.agreement_type # filters.agreement_type)
     /\ ~(filters.jurisdiction # None /\ m.jurisdiction # None /\ m.jurisdiction # filters.jurisdiction)
     /\ ~(filters.industry # None /\ m.industry # None /\ m.industry # filters.industry)
     /\ ~(filters.geography # None /\ m.geography # None /\ m.geography # filters.geography)
     /\ ~(filters.file_type # None /\ m.file_type # "" /\ Lower[m.file_type] # Lower[filters.file_type])
     /\ ~(filters.date_from # NoneNum /\ m.upload_date # NoneNum /\ m.upload_date < filters.date_from)
     /\ ~(filters.date_to # NoneNum /\ m.upload_date # NoneNum /\ m.upload_date > filters.date_to)

\* QueryService._apply_filters(documents, filters)
_apply_filters(documents, filters) ==
  IF ~AnyFilter(filters) THEN documents
  ELSE SelectSeq(documents, LAMBDA d : include_doc(d, filters))

\* set(word.lower() for word in question.split() if len(word) > 2)
question_words(question) == {question[i] : i \in {j \in 1..Len(question) : Len(Spell[question[j]]) > 2}}

\* The mutant without the score of the generic terms.
FieldScoreNoGeneric(label, question, exact, partial, generic_terms, generic) ==
  IF label = None THEN 0
  ELSE IF IsSubstring(Spell[Lower[label]], JoinChars(question)) THEN exact
  ELSE IF \E w \in question_words(question) : w \in Contained[Lower[label]] THEN partial
  ELSE 0

\* The score of one metadata field: its lowered value occurs in the question, or a
\* word of the question occurs in it, or one of the generic terms does.
FieldScore(label, question, exact, partial, generic_terms, generic) ==
  IF label = None THEN 0
  ELSE IF IsSubstring(Spell[Lower[label]], JoinChars(question)) THEN exact
  ELSE IF \E w \in question_words(question) : w \in Contained[Lower[label]] THEN partial
  ELSE IF \E w \in generic_terms : w \in Contained[Lower[label]] THEN generic
  ELSE 0

\* entity in text_lower, for an entity that is a string: its words stand in the text
\* one after the other, the first as the end of a word of the text, the last as the
\* beginning of one.  The empty string is in every text.
EntityInText(words, toks) ==
  \/ words = <<>>
  \/ Len(words) = 1 /\ \E i \in 1..Len(toks) : words[1] \in Contained[toks[i]]
  \/ /\ Len(words) > 1
     /\ \E i \in 1..(Len(toks) - Len(words) + 1) :
          /\ IsSuffix(Spell[words[1]], Spell[toks[i]])
          /\ \A k \in 2..(Len(words) - 1) : toks[i + k - 1] = words[k]
          /\ IsPrefix(Spell[words[Len(words)]], Spell[toks[i + Len(words) - 1]])

\* entity.lower() raises AttributeError for an entity that is a tuple; the loop over the
\* entities is entered for a document with a text.
ScoreRaises(d, query_analysis) ==
  /\ d.extracted_text # <<>>
  /\ \E e \in 1..Len(query_analysis.entities) : query_analysis.entities[e].tuple

\* The score the loop of _filter_documents_enhanced gives a document, in half-points.
DocumentScore(d, question, query_analysis) ==
  LET m == d.metadata
      ql == JoinChars(question)
      asks(w) == IsSubstring(Spell[w], ql)
      insights == d.ai_insights
      toks == Expand(d.extracted_text)
      entities == query_analysis.entities
  IN FieldScore(m.agreement_type, question, 16, 10, {"contract", "agreement", "nda", "msa"}, 4)
     + FieldScore(m.jurisdiction, question, 16, 10, {"uk", "usa", "uae", "singapore"}, 4)
     + FieldScore(m.industry, question, 12, 8, {}, 0)
     + FieldScore(m.geography, question, 12, 8, {}, 0)
     + (IF m.governing_law # NoPhrase /\ IsSubstring(JoinChars(m.governing_law), ql) THEN 8 ELSE 0)
     + 6 * Cardinality({i \in 1..Len(m.parties) : IsSubstring(JoinChars(m.parties[i]), ql)})
     + (IF insights # <<>>
        THEN (IF query_analysis.analysis_requested THEN 6 ELSE 0)
             + (IF asks("risk") /\ insights[1].risk_assessment # None
                THEN (IF asks("high") /\ insights[1].risk_assessment = "HIGH" THEN 8
                      ELSE IF asks("low") /\ insights[1].risk_assessment = "LOW" THEN 8
                      ELSE IF asks("medium") /\ insights[1].risk_assessment = "MEDIUM" THEN 8
                      ELSE 0)
                ELSE 0)
             + (IF asks("compliance") /\ insights[1].compliance_status # None
                THEN (IF asks("compliant") /\ insights[1].compliance_status = "COMPLIANT" THEN 8
                      ELSE IF asks("non") /\ asks("compliant") /\ insights[1].compliance_status = "NON_COMPLIANT" THEN 8
                      ELSE IF asks("pending") /\ insights[1].compliance_status = "PENDING_REVIEW" THEN 8
                      ELSE 0)
                ELSE 0)
        ELSE 0)
     + (IF d.extracted_text # <<>>
        THEN 4 * Cardinality({e \in 1..Len(entities) : EntityInText(entities[e].parts[1], toks)})
             + (IF Cardinality(question_words(question)) > 3
                THEN Cardinality(question_words(question) \cap ({toks[i] : i \in 1..Len(toks)} \ {NL}))
                ELSE 0)
             + (IF TextChars(d.extracted_text) > 1000 THEN 2
                ELSE IF TextChars(d.extracted_text) > 500 THEN 1
                ELSE 0)
        ELSE 0)
     + (IF query_analysis.intent = "summary_request" /\ insights # <<>> /\ insights[1].summary # <<>>
        THEN 4 ELSE 0)
     + (IF query_analysis.intent = "trend_analysis" /\ m.upload_date # NoneNum THEN 2 ELSE 0)

\* if score > 0: filtered.append((doc, score)); the mutant appends every document.
KeepsNotNegative(score) == score >= 0

Keeps(score) == score > 0

\* documents[:n]; the mutant takes the last n.
TakeLast(s, n) == SubSeq(s, Len(s) - Min({n, Len(s)}) + 1, Len(s))

Take(s, n) == SubSeq(s, 1, Min({n, Len(s)}))

RECURSIVE SortByScoreLastFirst(_, _)
\* The mutant of the sort that puts, among pairs of one score, the later first.
SortByScoreLastFirst(filtered, levels) ==
  IF levels = {} THEN <<>>
  ELSE LET level == SelectSeq(filtered, LAMBDA x : x.score = Max(levels))
       IN [i \in 1..Len(level) |-> level[Len(level) + 1 - i]]
            \o SortByScoreLastFirst(filtered, levels \ {Max(levels)})

RECURSIVE SortByScore(_, _)
\* filtered.sort(key=lambda x: x[1], reverse=True): the pairs of the greatest score
\* first, those of one score in the order they had.  levels is the set of the scores.
SortByScore(filtered, levels) ==
  IF levels = {} THEN <<>>
  ELSE SelectSeq(filtered, LAMBDA x : x.score = Max(levels))
         \o SortByScore(filtered, levels \ {Max(levels)})

fast_limit == 20
max_results == 30

\* QueryService._filter_documents_enhanced(question, documents, query_analysis, filters):
\* the path taken, whether the scoring raised, and the documents returned.
_filter_documents_enhanced(question, documents, query_analysis, filters) ==
  LET kept == _apply_filters(documents, filters)
  IN IF query_analysis.entities = <<>> /\ query_analysis.intent = "general_search"
     THEN [path |-> "fast", raised |-> FALSE, documents |-> Take(kept, fast_limit)]
     ELSE IF \E i \in 1..Len(kept) : ScoreRaises(kept[i], query_analysis)
     THEN [path |-> "scored", raised |-> TRUE, documents |-> <<>>]
     ELSE LET scored == [i \in 1..Len(kept) |->
                           [doc |-> kept[i], score |-> DocumentScore(kept[i], question, query_analysis)]]
              filtered == SelectSeq(scored, LAMBDA x : Keeps(x.score))
              sorted == SortByScore(filtered, {filtered[i].score : i \in 1..Len(filtered)})
          IN [path |-> "scored", raised |-> FALSE,
              documents |-> [j \in 1..Min({max_results, Len(sorted)}) |-> sorted[j].doc]]

(***************************************************************************)
(* Comparison builder (query_service.py).  A comparison is modelled by its *)
(* type, the documents involved and the facts its similarities and         *)
(* differences state; the sentences made of them, the confidence and the   *)
(* metadata tallies are left out.                                          *)
(***************************************************************************)
\* The groups of one dimension, in the order their values first occur: the documents
\* that have the value, for every value that at least min_group documents have.
GroupsOf(documents, dimension, min_group) ==
  LET having == SelectSeq(documents, LAMBDA d : d.metadata[dimension] # None)
      docs(v) == SelectSeq(having, LAMBDA d : d.metadata[dimension] = v)
      first == {i \in 1..Len(having) :
                  /\ \A j \in 1..(i - 1) : having[j].metadata[dimension] # having[i].metadata[dimension]
                  /\ Len(docs(having[i].metadata[dimension])) >= min_group}
      large == Ascending(first)
  IN [g \in 1..Len(large) |->
        [group_type |-> [dimension |-> dimension, value |-> having[large[g]].metadata[dimension]],
         docs |-> docs(having[large[g]].metadata[dimension])]]

\* The mutant that keeps the groups of one document too.
_group_documents_for_comparison_any(documents) ==
  GroupsOf(documents, "agreement_type", 1) \o GroupsOf(documents, "jurisdiction", 1)
    \o GroupsOf(documents, "industry", 1)

\* QueryService._group_documents_for_comparison(documents)
_group_documents_for_comparison(documents) ==
  GroupsOf(documents, "agreement_type", 2) \o GroupsOf(documents, "jurisdiction", 2)
    \o GroupsOf(documents, "industry", 2)

\* The values a field has over the documents that have one.
ValuesOf(documents, field(_), none) == {field(documents[i]) : i \in 1..Len(documents)} \ {none}

RiskOf(d) == IF d.ai_insights = <<>> THEN None ELSE d.ai_insights[1].risk_assessment

\* QueryService._find_similarities(documents)
_find_similarities(documents) ==
  LET one(about, vs) == IF Cardinality(vs) = 1 THEN <<[about |-> about, value |-> CHOOSE v \in vs : TRUE]>> ELSE <<>>
  IN one("agreement_type", ValuesOf(documents, LAMBDA d : d.metadata.agreement_type, None))
     \o one("jurisdiction", ValuesOf(documents, LAMBDA d : d.metadata.jurisdiction, None))
     \o one("industry", ValuesOf(documents, LAMBDA d : d.metadata.industry, None))
     \o one("risk_level", ValuesOf(documents, RiskOf, None))

\* QueryService._find_differences(documents)
_find_differences(documents) ==
  LET values == ValuesOf(documents, LAMBDA d : d.metadata.value, NoneNum) \ {0}
      parties == UNION {{documents[i].metadata.parties[k] : k \in 1..Len(documents[i].metadata.parties)}
                          : i \in 1..Len(documents)}
      risks == ValuesOf(documents, RiskOf, None)
  IN (IF Cardinality(values) > 1 THEN <<[about |-> "value", min |-> Min(values), max |-> Max(values)]>> ELSE <<>>)
     \o (IF Cardinality(parties) > Len(documents)
         THEN <<[about |-> "parties", min |-> Cardinality(parties), max |-> Cardinality(parties)]>> ELSE <<>>)
     \o (IF Cardinality(risks) > 1
         THEN <<[about |-> "risk_level", min |-> Cardinality(risks), max |-> Cardinality(risks)]>> ELSE <<>>)

\* round(x, 2) of the quotient num / den of hundredths: the nearest whole number of
\* hundredths, the even one of two equally near.
RoundQuotient(num, den) ==
  IF 2 * (num % den) < den THEN num \div den
  ELSE IF 2 * (num % den) > den THEN num \div den + 1
  ELSE num \div den + ((num \div den) % 2)

\* _calculate_comparison_confidence, in hundredths: confidence_factors is the sum of
\* the confidence of every document that has one, of the share of the documents with
\* agreement type, jurisdiction and industry, and of 1 if anything was found;
\* total_factors is the number of those documents and 2.
_calculate_comparison_confidence(documents, similarities, differences) ==
  LET scores == SelectSeq([i \in 1..Len(documents) |->
                             IF documents[i].ai_insights # <<>> THEN documents[i].ai_insights[1].confidence_score ELSE 0],
                          LAMBDA c : c # 0)
      metadata_complete == Len(SelectSeq(documents,
                             LAMBDA d : d.metadata.agreement_type # None /\ d.metadata.jurisdiction # None
                                        /\ d.metadata.industry # None))
      found == IF similarities # <<>> \/ differences # <<>> THEN 1 ELSE 0
  IN RoundQuotient(SumSeq(scores) * Len(documents) + 100 * metadata_complete + 100 * found * Len(documents),
                   Len(documents) * (Len(scores) + 2))

\* The StructuredComparison that _create_comparison builds.
Compared(comparison, documents) ==
  [comparison EXCEPT !.confidence_score =
     _calculate_comparison_confidence(documents, comparison.similarities, comparison.differences)]

StructuredComparison(group_type, documents) ==
  Compared([comparison_type |-> group_type,
            documents_involved |-> [i \in 1..Len(documents) |-> documents[i].metadata.filename],
            similarities |-> _find_similarities(documents),
            differences |-> _find_differences(documents),
            confidence_score |-> 0],
           documents)

\* QueryService._create_comparison(group_type, documents, question): no or one comparison.
_create_comparison(group_type, documents) ==
  IF Len(documents) < 2 THEN <<>> ELSE <<StructuredComparison(group_type, documents)>>

RECURSIVE ComparisonsOf(_)
ComparisonsOf(groups) ==
  IF groups = <<>> THEN <<>>
  ELSE (IF Len(groups[1].docs) >= 2 THEN _create_comparison(groups[1].group_type, groups[1].docs) ELSE <<>>)
         \o ComparisonsOf(Tail(groups))

\* The mutant that compares the groups of one document too.
_generate_structured_comparisons_of_any(documents) ==
  LET groups == _group_documents_for_comparison_any(documents)
  IN [g \in 1..Len(groups) |-> StructuredComparison(groups[g].group_type, groups[g].docs)]

\* QueryService._generate_structured_comparisons(documents, question)
_generate_structured_comparisons(documents) ==
  IF Len(documents) < 2 THEN <<>>
  ELSE ComparisonsOf(_group_documents_for_comparison(documents))

(***************************************************************************)
(* Dashboard aggregation (ai_analyzer.py).  A ratio is kept as numerator   *)
(* and denominator.                                                        *)
(***************************************************************************)
\* The dict value -> number of the documents that have it, for one dimension.
Tally(documents, dimension) ==
  [v \in ValuesOf(documents, LAMBDA d : d.metadata[dimension], None) |->
     Cardinality({i \in 1..Len(documents) : documents[i].metadata[dimension] = v})]

RECURSIVE SumTimes(_)
\* The sum of the numbers of the domain of times, each taken as many times as it says.
SumTimes(times) ==
  IF DOMAIN times = {} THEN 0
  ELSE LET v == CHOOSE x \in DOMAIN times : TRUE
       IN v * times[v] + SumTimes([x \in DOMAIN times \ {v} |-> times[x]])

\* sum(field(doc) for doc in documents if field(doc) is not None)
SumOf(documents, field(_), none) ==
  SumTimes([v \in ValuesOf(documents, field, none) |->
              Cardinality({i \in 1..Len(documents) : field(documents[i]) = v})])

\* The mutant whose rate of an empty collection is 0, as its completeness is.
RateOfNone(part, whole, empty) == IF whole # 0 THEN [num |-> part * 100, den |-> whole] ELSE [num |-> 0, den |-> 1]

\* (part / len(documents) * 100) if documents else empty
RateOf(part, whole, empty) == IF whole # 0 THEN [num |-> part * 100, den |-> whole] ELSE [num |-> empty, den |-> 1]

\* documents[:10]
recent_limit == 10

\* upload_info of a document.
UploadInfo(d) ==
  [filename |-> d.metadata.filename, agreement_type |-> d.metadata.agreement_type,
   jurisdiction |-> d.metadata.jurisdiction, industry |-> d.metadata.industry,
   upload_date |-> d.metadata.upload_date]

RECURSIVE SortByDate(_, _)
\* recent_uploads.sort(key=lambda x: x["upload_date"], reverse=True): the entries of the
\* latest date first, in the order they stand in, then the others likewise.
SortByDate(recent_uploads, dates) ==
  IF dates = {} THEN <<>>
  ELSE SelectSeq(recent_uploads, LAMBDA x : x.upload_date = Max(dates))
         \o SortByDate(recent_uploads, dates \ {Max(dates)})

\* The recent_uploads of the dashboard: the upload_info of documents[:10], sorted.
RecentUploads(documents) ==
  SortByDate([i \in 1..Min({recent_limit, Len(documents)}) |-> UploadInfo(documents[i])],
             {documents[i].metadata.upload_date : i \in 1..Min({recent_limit, Len(documents)})})

\* AIAnalyzer.generate_dashboard_insights(documents); the breakdowns and the parts that
\* are the same for every collection are left out.
\* risk_assessment.value.upper() of the values of RiskLevel.
UpperWord ==
  "High" :> "HIGH" @@ "Medium" :> "MEDIUM" @@ "Low" :> "LOW" @@ "Critical" :> "CRITICAL"

\* risk_distribution of generate_dashboard_insights: a document counts under the
\* upper-cased value of its risk tier when that is a key of the dict.
risk_distribution(documents) ==
  [level \in {"LOW", "MEDIUM", "HIGH", "CRITICAL"} |->
     Cardinality({i \in 1..Len(documents) :
                    /\ RiskOf(documents[i]) \in DOMAIN UpperWord
                    /\ UpperWord[RiskOf(documents[i])] = level})]

generate_dashboard_insights(documents) ==
  LET idx == 1..Len(documents)
      dates == {documents[i].metadata.upload_date : i \in idx} \ {NoneNum}
      total_value == SumOf(documents, LAMBDA d : d.metadata.value, NoneNum)
      scored == {i \in idx : documents[i].confidence_score # NoneNum}
  IN [agreement_types |-> Tally(documents, "agreement_type"),
      jurisdictions |-> Tally(documents, "jurisdiction"),
      industries |-> Tally(documents, "industry"),
      geographies |-> Tally(documents, "geography"),
      total_documents |-> Len(documents),
      recent_uploads |-> RecentUploads(documents),
      total_value |-> IF total_value > 0 THEN total_value ELSE NoneNum,
      date_range |-> [start |-> IF dates # {} THEN Min(dates) ELSE NoneNum,
                      end |-> IF dates # {} THEN Max(dates) ELSE NoneNum],
      risk_analysis |-> [distribution |-> risk_distribution(documents),
                         total_assessed |-> Len(documents)],
      document_health |->
        [average_confidence |-> IF scored # {}
                                THEN [num |-> SumOf(documents, LAMBDA d : d.confidence_score, NoneNum),
                                      den |-> 100 * Cardinality(scored)]
                                ELSE [num |-> 0, den |-> 1],
         processing_success_rate |->
           RateOf(Cardinality({i \in idx : documents[i].processing_status # "error"}), Len(documents), 100),
         metadata_completeness |->
           RateOf(Cardinality({i \in idx : \/ documents[i].metadata.agreement_type # None
                                           \/ documents[i].metadata.jurisdiction # None
                                           \/ documents[i].metadata.industry # None}), Len(documents), 0),
         total_documents |-> Len(documents),
         low_confidence |-> Cardinality({i \in scored : documents[i].confidence_score <= 40}),
         medium_confidence |-> Cardinality({i \in scored : documents[i].confidence_score > 40
                                                            /\ documents[i].confidence_score <= 70}),
         high_confidence |-> Cardinality({i \in scored : documents[i].confidence_score > 70})]]

(***************************************************************************)
(* Classifier harness: a text is put together line by line, and the        *)
(* classifier is called on it, possibly twice, at different times.         *)
(***************************************************************************)
Lines == {
  <<"nda">>, <<"master", "service">>, <<"lease">>, <<"dubai">>, <<"de">>, <<"software">>,
  <<"consulting">>, <<"gulf">>, <<"foo">>, <<"effective", "date", "1/2/2024">>,
  <<"between", "acme", "and", "globex">>,
  <<"party", "a", "foo", "governing", "law", "gulf", "law">>,
  <<"governed", "by", "english", "law">>, <<"value", "500", "usd">>, <<NL>> }

ClassifyFile == "a.pdf"

Init ==
  /\ text = <<>>
  /\ now = 0
  /\ results = <<>>
  /\ doc = <<>>
  /\ analysis = <<>>
  /\ request = <<>>
  /\ analysed = <<>>
  /\ collection = <<>>
  /\ export_collection = <<>>
  /\ outcome = <<>>
  /\ file_storage = <<>>
  /\ documents_storage = <<>>
  /\ next_id = 0
  /\ deleted = {}
  /\ reply = <<>>

AppendLine(l) ==
  /\ Len(text) < MaxLines
  /\ text' = Append(text, l)
  /\ results' = <<>>
  /\ UNCHANGED <<now, scoreVars, analyzeVars, queryVars, storeVars>>

Tick ==
  /\ now < MaxClock
  /\ now' = now + 1
  /\ UNCHANGED <<text, results, scoreVars, analyzeVars, queryVars, storeVars>>

Classify ==
  /\ results' = IF results = <<>>
                 THEN <<_extract_metadata(ClassifyFile, Words(text), now)>>
                 ELSE <<results[1], _extract_metadata(ClassifyFile, Words(text), now)>>
  /\ UNCHANGED <<text, now, scoreVars, analyzeVars, queryVars, storeVars>>

NextClassify ==
  \/ \E l \in Lines : AppendLine(l)
  \/ Tick
  \/ Classify

SpecClassify == Init /\ [][NextClassify]_vars

(***************************************************************************)
(* Scorer harness: a text is put together run by run, and the insights of  *)
(* a document with that text are generated; a statement of the try block   *)
(* may raise.                                                              *)
(***************************************************************************)
ClausePhrase == <<"contract", "agreement", "terms", "conditions", "party", "payment", "liability", ".", NL>>

ScoreRuns == {
  [phrase |-> <<"breach">>, n |-> 3], [phrase |-> <<"breach">>, n |-> 4],
  [phrase |-> <<"audit">>, n |-> 3],
  [phrase |-> <<"foo">>, n |-> 96], [phrase |-> <<"foo">>, n |-> 97], [phrase |-> <<"foo">>, n |-> 200],
  [phrase |-> ClausePhrase, n |-> 1], [phrase |-> ClausePhrase, n |-> 96] }

ScoreFile == "a.pdf"

\* The tables local to _assess_risk_level, _assess_compliance_status and
\* _assess_business_impact: the raw counts, and the scores after normalization.
ScoreTables(runs) ==
  [words |-> text_length(runs),
   counts |-> [risk |-> risk_counts(runs), compliance |-> compliance_counts(runs),
               impact |-> impact_counts(runs)],
   scores |-> [risk |-> risk_scores(runs), compliance |-> compliance_scores(runs),
               impact |-> impact_scores(runs)]]

AppendRun(r) ==
  /\ Len(doc) < MaxRuns
  /\ doc' = Append(doc, r)
  /\ UNCHANGED <<analysis, classifyVars, analyzeVars, queryVars, storeVars>>

(***************************************************************************)
(* enhance_document (ai_analyzer.py): the scorer as its callers run it on  *)
(* a Document.  The bundle, fallback or not, is set on the document with   *)
(* its confidence.  _generate_basic_ai_insights catches every exception    *)
(* itself, so the handler of enhance_document, the only place that appends *)
(* to processing_errors, is never entered from it.                         *)
(***************************************************************************)
NewDocument(file, runs) ==
  [filename |-> file, extracted_text |-> runs, ai_insights |-> <<>>, confidence_score |-> NoneNum,
   processing_errors |-> <<>>]

enhance_document(document, key_terms, raised) ==
  With(_generate_basic_ai_insights(document.extracted_text, document.filename, key_terms, raised),
       LAMBDA ai_insights :
         [document EXCEPT !.ai_insights = <<ai_insights>>,
                          !.confidence_score = ai_insights.confidence_score])

Scored(document, raised) ==
  [text |-> document.extracted_text, raised |-> raised,
   insights |-> document.ai_insights[1],
   document |-> document,
   locals |-> IF raised THEN <<>> ELSE <<ScoreTables(document.extracted_text)>>]

Analyze(raised) ==
  /\ \E kt \in _extract_key_terms(doc) :
       analysis' = << Scored(enhance_document(NewDocument(ScoreFile, doc), kt, raised), raised) >>
  /\ UNCHANGED <<doc, classifyVars, analyzeVars, queryVars, storeVars>>

NextScore ==
  \/ \E r \in ScoreRuns : AppendRun(r)
  \/ \E raised \in BOOLEAN : Analyze(raised)

SpecScore == Init /\ [][NextScore]_vars

(***************************************************************************)
(* Analyzer harness: a question is put together phrase by phrase, and the  *)
(* analyzer is called on it.                                               *)
(***************************************************************************)
QuestionPhrases == {
  <<"show">>, <<"nda">>, <<"agreements">>, <<"compare">>, <<"risk">>, <<"summary", "of">>,
  <<"contracts", "worth", "500", "usd">>, <<"documents">>, <<"foo">>, <<"between">> }

\* The intents whose patterns match the question, as places of the intent table.
MatchedIntents(toks) == {t \in 1..Len(query_patterns) : IntentMatches(t, toks) # <<>>}

AppendPhrase(p) ==
  /\ Len(request) < MaxPhrases
  /\ request' = Append(request, p)
  /\ analysed' = <<>>
  /\ UNCHANGED <<classifyVars, scoreVars, queryVars, storeVars>>

AnalyzeQuestion ==
  /\ analysed = <<>>
  /\ analysed' = << [question |-> Words(request),
                     matched |-> MatchedIntents(Words(request)),
                     query_analysis |-> _analyze_enhanced_query(Words(request))] >>
  /\ UNCHANGED <<request, classifyVars, scoreVars, queryVars, storeVars>>

NextAnalyze ==
  \/ \E p \in QuestionPhrases : AppendPhrase(p)
  \/ AnalyzeQuestion

SpecAnalyze == Init /\ [][NextAnalyze]_vars

(***************************************************************************)
(* Query harness: a collection is put together batch by batch, of          *)
(* documents as process_document makes them, and the ranker, the           *)
(* comparison builder or the dashboard aggregation is applied to it.       *)
(***************************************************************************)
LeasePhrase == <<"lease", "dubai", "software", "gulf", "governed", "by", "english", "law",
                 "between", "acme", "and", "globex", "value", "500", "usd">>

\* The uploads: a file name, the text extracted from the file, the time of upload, and
\* whether the file is also uploaded many times over in one request.
Uploads == <<
  [file |-> "a.pdf", runs |-> <<[phrase |-> <<"nda">>, n |-> 1]>>, at |-> 0, bulk |-> TRUE],
  [file |-> "b.docx", runs |-> <<[phrase |-> <<"msa">>, n |-> 1]>>, at |-> 0, bulk |-> FALSE],
  [file |-> "a.pdf", runs |-> <<[phrase |-> <<"foo">>, n |-> 1]>>, at |-> 1, bulk |-> TRUE],
  [file |-> "b.docx", runs |-> <<[phrase |-> <<"foo">>, n |-> 200]>>, at |-> 1, bulk |-> FALSE],
  [file |-> "a.pdf", runs |-> <<[phrase |-> LeasePhrase, n |-> 1]>>, at |-> 1, bulk |-> TRUE],
  [file |-> "b.docx", runs |-> <<[phrase |-> <<"nda", "dubai">>, n |-> 1]>>, at |-> 1, bulk |-> FALSE] >>

\* The document of an upload.
Uploaded(u) ==
  process_document(u.file, u.runs, u.at, CHOOSE kt \in _extract_key_terms(u.runs) : TRUE, FALSE)

\* The documents of the uploads.
RECURSIVE UploadedFrom(_)
UploadedFrom(k) ==
  IF k > Len(Uploads) THEN <<>> ELSE <<Uploaded(Uploads[k])>> \o UploadedFrom(k + 1)

Corpus == UploadedFrom(1)

\* The numbers of files of one upload request: one, or one more than the ranker returns.
BatchSizes == {1, 31}

Questions == <<
  <<"show", "nda", "agreements">>, <<"foo">>, <<"compare", "risk", "agreements">>,
  <<"contracts", "worth", "500", "usd">>, <<"summary", "of", "nda", "contracts">>,
  <<"show", "all", "the", "lease", "agreements">>,
  <<"low", "risk", "documents", "compliant", "compliance">> >>

\* The analyses of the questions.
RECURSIVE AnalysedFrom(_)
AnalysedFrom(q) ==
  IF q > Len(Questions) THEN <<>> ELSE <<_analyze_enhanced_query(Questions[q])>> \o AnalysedFrom(q + 1)

QueryAnalyses == AnalysedFrom(1)

Filters == {
  NoFilters,
  [NoFilters EXCEPT !.agreement_type = "NDA"],
  [NoFilters EXCEPT !.file_type = ".PDF", !.date_from = 1] }

RECURSIVE Documents(_)
\* The documents of a collection.
Documents(batches) ==
  IF batches = <<>> THEN <<>>
  ELSE Repeat(<<Corpus[batches[1].k]>>, batches[1].n) \o Documents(Tail(batches))

AddDocuments(k, n) ==
  /\ Len(collection) < MaxBatches
  /\ collection' = Append(collection, [k |-> k, n |-> n])
  /\ outcome' = <<>>
  /\ UNCHANGED <<export_collection, classifyVars, scoreVars, analyzeVars, storeVars>>

Rank(q, f) ==
  /\ outcome = <<>>
  /\ outcome' = << [op |-> "rank", question |-> Questions[q], filters |-> f, query_analysis |-> QueryAnalyses[q],
                    result |-> _filter_documents_enhanced(Questions[q], Documents(collection),
                                                          QueryAnalyses[q], f)] >>
  /\ UNCHANGED <<collection, export_collection, classifyVars, scoreVars, analyzeVars, storeVars>>

Compare ==
  /\ outcome = <<>>
  /\ outcome' = << [op |-> "compare", result |-> _generate_structured_comparisons(Documents(collection))] >>
  /\ UNCHANGED <<collection, export_collection, classifyVars, scoreVars, analyzeVars, storeVars>>

Aggregate ==
  /\ outcome = <<>>
  /\ outcome' = << [op |-> "aggregate", result |-> generate_dashboard_insights(Documents(collection))] >>
  /\ UNCHANGED <<collection, export_collection, classifyVars, scoreVars, analyzeVars, storeVars>>

\* DELETE /documents/{id} (routes.py), for a document that was uploaded alone:
\* file_storage of routes.py forgets it.
DeleteDocument(b) ==
  /\ b \in 1..Len(collection)
  /\ collection[b].n = 1
  /\ collection' = SubSeq(collection, 1, b - 1) \o SubSeq(collection, b + 1, Len(collection))
  /\ outcome' = <<>>
  /\ UNCHANGED <<export_collection, classifyVars, scoreVars, analyzeVars, storeVars>>

\* GET /export/{format} (export_routes.py): the dashboard of the documents of the
\* file_storage of export_routes.py, or 404 when it has none.
Export ==
  /\ outcome = <<>>
  /\ outcome' = << [op |-> "export", read |-> export_collection,
                    status |-> IF Documents(export_collection) = <<>> THEN 404 ELSE 200,
                    result |-> IF Documents(export_collection) = <<>> THEN <<>>
                               ELSE <<generate_dashboard_insights(Documents(export_collection))>>] >>
  /\ UNCHANGED <<collection, export_collection, classifyVars, scoreVars, analyzeVars, storeVars>>

Next ==
  \/ \E k \in 1..Len(Uploads) : \E n \in {m \in BatchSizes : m = 1 \/ Uploads[k].bulk} : AddDocuments(k, n)
  \/ \E b \in 1..MaxBatches : DeleteDocument(b)
  \/ Export
  \/ \E q \in 1..Len(Questions) : \E f \in Filters : Rank(q, f)
  \/ Compare
  \/ Aggregate

Spec == Init /\ [][Next]_vars

(***************************************************************************)
(* Store harness (routes.py, file_storage.py, query_service.py): upload,   *)
(* regenerate-ai and delete requests on the FileStorage of routes.py and   *)
(* the document list of the query service.  A Document is one object: the  *)
(* entries of the dict and of the list that have one id are the same       *)
(* object, and what enhance_document sets on it shows in all of them.      *)
(***************************************************************************)
\* The uploads of the store harness, as places in Uploads.
StoredUploads == {1, 5}

\* self.documents[document.id] = document: a key the dict has keeps its place.
store_document(documents, document) ==
  IF \E i \in 1..Len(documents) : documents[i].id = document.id
  THEN [i \in 1..Len(documents) |-> IF documents[i].id = document.id THEN document ELSE documents[i]]
  ELSE Append(documents, document)

\* self.documents.get(document_id): no or one document.
get_document(documents, document_id) == SelectSeq(documents, LAMBDA d : d.id = document_id)

\* The mutant of delete_document that returns True also for an id it does not have.
delete_document_true(documents, document_id) ==
  [success |-> TRUE, documents |-> SelectSeq(documents, LAMBDA d : d.id # document_id)]

\* FileStorage.delete_document(document_id): what it returns, and the dict after it.
delete_document(documents, document_id) ==
  IF get_document(documents, document_id) # <<>>
  THEN [success |-> TRUE, documents |-> SelectSeq(documents, LAMBDA d : d.id # document_id)]
  ELSE [success |-> FALSE, documents |-> documents]

\* QueryService.remove_document(document_id): the first entry of the id is popped.
remove_document(storage, document_id) ==
  LET at == {i \in 1..Len(storage) : storage[i].id = document_id}
  IN IF at = {} THEN storage
     ELSE SubSeq(storage, 1, Min(at) - 1) \o SubSeq(storage, Min(at) + 1, Len(storage))

\* The Document process_document makes of upload k, with a fresh id.
ProcessedDocument(id, k) ==
  [id |-> id, filename |-> Uploads[k].file, processing_errors |-> <<>>] @@ Uploaded(Uploads[k])

\* enhance_document on a stored document.
Enhanced(document) ==
  enhance_document(document, CHOOSE kt \in _extract_key_terms(document.extracted_text) : TRUE, FALSE)

\* POST /upload of one file: process_document, enhance_document, store_document,
\* add_documents.
UploadRequest(k) ==
  /\ next_id < MaxIds
  /\ Len(documents_storage) < MaxStored
  /\ LET document == Enhanced(ProcessedDocument(next_id + 1, k))
     IN /\ file_storage' = store_document(file_storage, document)
        /\ documents_storage' = Append(documents_storage, document)
  /\ next_id' = next_id + 1
  /\ reply' = <<[op |-> "upload", id |-> next_id + 1, status |-> 200, success |-> TRUE, before |-> file_storage]>>
  /\ UNCHANGED <<deleted, classifyVars, scoreVars, analyzeVars, queryVars>>

\* POST /documents/{id}/regenerate-ai: the HTTPException of a missing document is
\* caught by the handler's own except clause and answered with status 500.
RegenerateRequest(id) ==
  IF get_document(file_storage, id) = <<>>
  THEN /\ reply' = <<[op |-> "regenerate", id |-> id, status |-> 500, success |-> FALSE, before |-> file_storage]>>
       /\ UNCHANGED <<file_storage, documents_storage, next_id, deleted, classifyVars, scoreVars, analyzeVars, queryVars>>
  ELSE /\ Len(documents_storage) < MaxStored
       /\ LET document == Enhanced(get_document(file_storage, id)[1])
          IN /\ file_storage' = store_document(file_storage, document)
             /\ documents_storage' =
                  Append([i \in 1..Len(documents_storage) |->
                            IF documents_storage[i].id = id THEN document ELSE documents_storage[i]],
                         document)
       /\ reply' = <<[op |-> "regenerate", id |-> id, status |-> 200, success |-> TRUE, before |-> file_storage]>>
       /\ UNCHANGED <<next_id, deleted, classifyVars, scoreVars, analyzeVars, queryVars>>

\* DELETE /documents/{id}: file_storage.delete_document, and on success
\* query_service.remove_document; 404 when the store does not have the id.
DeleteRequest(id) ==
  LET done == delete_document(file_storage, id)
  IN /\ file_storage' = done.documents
     /\ documents_storage' = IF done.success THEN remove_document(documents_storage, id)
                             ELSE documents_storage
     /\ deleted' = IF done.success THEN deleted \cup {id} ELSE deleted
     /\ reply' = <<[op |-> "delete", id |-> id, status |-> IF done.success THEN 200 ELSE 404,
                    success |-> done.success, before |-> file_storage]>>
     /\ UNCHANGED <<next_id, classifyVars, scoreVars, analyzeVars, queryVars>>

NextStore ==
  \/ \E k \in StoredUploads : UploadRequest(k)
  \/ \E id \in 1..MaxIds : RegenerateRequest(id)
  \/ \E id \in 1..MaxIds : DeleteRequest(id)

SpecStore == Init /\ [][NextStore]_vars

(***************************************************************************)
(* Properties of the classifier.                                           *)
(***************************************************************************)
\* The classification proper: the fields of the metadata that are read off the text.
Classification(m) ==
  [agreement_type |-> m.agreement_type, jurisdiction |-> m.jurisdiction, industry |-> m.industry,
   geography |-> m.geography, governing_law |-> m.governing_law, parties |-> m.parties,
   effective_date |-> m.effective_date, expiration_date |-> m.expiration_date,
   value |-> m.value, currency |-> m.currency]

\* got is the first label of the table whose pattern matches toks, None when none does.
IsFirstLabel(got, patterns, toks) ==
  With({k \in 1..Len(patterns) : Search(patterns[k].alts, toks)},
       LAMBDA matching :
         /\ \A k \in 1..Len(patterns) :
              got = patterns[k].label <=>
                /\ k \in matching
                /\ \A j \in 1..(k - 1) : j \notin matching
         /\ got = None <=> matching = {})

\* C4: in each categorical dimension (agreement type, jurisdiction, industry, geography)
\* the classifier returns the first label, in table order, whose pattern matches the
\* text, and None when no pattern matches; a text matching both the NDA and the MSA
\* pattern is classified NDA.
C4_FirstLabelWins ==
  \A n \in 1..Len(results) :
    Words(text) # <<>> =>
      /\ IsFirstLabel(results[n].agreement_type, agreement_patterns, Words(text))
      /\ IsFirstLabel(results[n].jurisdiction, jurisdiction_patterns, Words(text))
      /\ IsFirstLabel(results[n].industry, industry_patterns, Words(text))
      /\ IsFirstLabel(results[n].geography, geography_patterns, Words(text))
      /\ (Search(agreement_patterns[1].alts, Words(text)) /\ Search(agreement_patterns[2].alts, Words(text))
            => agreement_patterns[1].label = "NDA" /\ results[n].agreement_type = "NDA")

\* A text with an MSA phrase before an NDA word has been classified, as NDA.
C4_Witness ==
  /\ text = << <<"master", "service">>, <<"nda">> >>
  /\ results # <<>>
  /\ results[1].agreement_type = "NDA"

\* C10: two calls of the classifier on the same text, at any two times, return the
\* same classification, party list and dates included.
C10_Deterministic ==
  Len(results) = 2 => Classification(results[1]) = Classification(results[2])

\* A text with a date clause has been classified twice, the clock having moved between.
C10_Differs ==
  /\ text = << <<"effective", "date", "1/2/2024">> >>
  /\ Len(results) = 2
  /\ results[1].effective_date = 0
  /\ results[2].effective_date = 1

(***************************************************************************)
(* Properties of the scorer.                                               *)
(***************************************************************************)
\* C5: the confidence score of the insights lies in [0, 0.95] after heuristic scoring
\* and in [0.1, 0.3] when the insights are the fallback of the except branch.
C5_ConfidenceBounds ==
  analysis # <<>> =>
    LET c == analysis[1].insights.confidence_score
    IN IF analysis[1].raised THEN 10 <= c /\ c <= 30 ELSE 0 <= c /\ c <= 95

\* A text whose additions exceed 0.95 has been scored, at the cap.
C5_Witness ==
  /\ analysis # <<>>
  /\ ~analysis[1].raised
  /\ analysis[1].text = <<[phrase |-> ClausePhrase, n |-> 96]>>
  /\ confidence_sum(analysis[1].text, analysis[1].insights.key_terms) > 95
  /\ analysis[1].insights.confidence_score = 95

\* C6: with rate = matches of a tier * 100 / words, the risk is High when the high
\* rate exceeds 3.0, else Medium when the medium rate exceeds 2.0 or the high rate
\* exceeds 1.5, else Low; 4 high-tier matches in 100 words give High.
C6_RiskThresholds ==
  analysis # <<>> /\ ~analysis[1].raised =>
    LET wc == analysis[1].locals[1].words
        h == analysis[1].locals[1].counts.risk.high
        m == analysis[1].locals[1].counts.risk.medium
        risk == analysis[1].insights.risk_assessment
    IN /\ wc > 0 =>
            risk = IF 100 * h > 3 * wc THEN "High"
                   ELSE IF 100 * m > 2 * wc \/ 200 * h > 3 * wc THEN "Medium"
                   ELSE "Low"
       /\ h = 4 /\ wc = 100 => risk = "High"

\* "breach" four times in a text of 100 words has been assessed, as High.
C6_Witness ==
  /\ analysis # <<>>
  /\ ~analysis[1].raised
  /\ analysis[1].text = <<[phrase |-> <<"breach">>, n |-> 4], [phrase |-> <<"foo">>, n |-> 96]>>
  /\ analysis[1].locals[1].counts.risk.high = 4
  /\ analysis[1].locals[1].words = 100
  /\ analysis[1].insights.risk_assessment = "High"

\* The tiers of the three scorings.
Tiers ==
  {<<"risk", "high">>, <<"risk", "medium">>, <<"risk", "low">>,
   <<"compliance", "high">>, <<"compliance", "medium">>, <<"compliance", "low">>,
   <<"impact", "financial">>, <<"impact", "operational">>, <<"impact", "strategic">>,
   <<"impact", "regulatory">>}

\* The text scored by the latest call has no words: every score is 0, undivided.
NoWordsNoDivision ==
  analysis # <<>> /\ ~analysis[1].raised /\ analysis[1].locals[1].words = 0 =>
    \A t \in Tiers : /\ analysis[1].locals[1].scores[t[1]][t[2]].num = 0
                     /\ ~analysis[1].locals[1].scores[t[1]][t[2]].divided

\* From one scoring to the next, a tier with the same raw count (of at least least)
\* over more words has a strictly smaller score.
RateFalls(least) ==
  analysis # <<>> /\ analysis' # <<>> /\ ~analysis[1].raised /\ ~analysis'[1].raised =>
    LET old == analysis[1].locals[1]
        new == analysis'[1].locals[1]
    IN old.words < new.words =>
         \A t \in Tiers :
           old.counts[t[1]][t[2]] = new.counts[t[1]][t[2]] /\ old.counts[t[1]][t[2]] >= least
             => Below(new.scores[t[1]][t[2]], old.scores[t[1]][t[2]])

\* C7 as stated: in risk, compliance and business-impact scoring, for a fixed raw match
\* count the score count*100/words strictly decreases as the number of words increases,
\* and with no words every score is 0 and nothing is divided.
C7_Original == [](NoWordsNoDivision) /\ [][RateFalls(0)]_vars

\* C7, amended: for a fixed raw match count of at least 1 the score count*100/words
\* strictly decreases as the number of words increases (a count of 0 keeps the score
\* 0), and with no words every score is 0 and nothing is divided.
C7_RateDecreases == [](NoWordsNoDivision) /\ [][RateFalls(1)]_vars

\* A text with three matches and 96 more words than matches has been scored: its high
\* risk score, 300/99, is below the 300/3 of the matches alone.
C7_Witness ==
  /\ analysis # <<>>
  /\ ~analysis[1].raised
  /\ analysis[1].text = <<[phrase |-> <<"breach">>, n |-> 3], [phrase |-> <<"foo">>, n |-> 96]>>
  /\ analysis[1].locals[1].counts.risk.high = 3
  /\ analysis[1].locals[1].scores.risk.high = [num |-> 300, den |-> 99, divided |-> TRUE]

(***************************************************************************)
(* Properties of the query analyzer.                                       *)
(***************************************************************************)
\* C3: the intent returned for a question is the first intent, in the order of the
\* intent table, that has a matching pattern; an intent later in the table that also
\* matches never replaces it, and general_search is returned only when none matches.
C3_FirstIntentWins ==
  analysed # <<>> =>
    LET matched == analysed[1].matched
        intent == analysed[1].query_analysis.intent
    IN /\ matched # {} => intent = query_patterns[Min(matched)].intent
       /\ intent = "general_search" <=> matched = {}

(***************************************************************************)
(* Properties of the ranker.                                               *)
(***************************************************************************)
\* The documents that a call of the ranker has returned.
Returned == outcome[1].result.documents

\* C1: for every question, analysis, filter set and collection, a call of the ranker
\* that returns has at most 30 documents on the scored path and at most 20 on the fast
\* path, and no document whose score is 0 is among those of the scored path.
C1_RankerBounded ==
  outcome # <<>> /\ outcome[1].op = "rank" /\ ~outcome[1].result.raised =>
    IF outcome[1].result.path = "fast"
    THEN Len(Returned) <= 20
    ELSE /\ Len(Returned) <= 30
         /\ \A i \in 1..Len(Returned) :
              DocumentScore(Returned[i], outcome[1].question, outcome[1].query_analysis) # 0

\* 31 NDA documents and one with no label have been ranked for "show nda agreements":
\* 30 documents are returned, the one without a score not among them.
C1_Witness ==
  /\ collection = <<[k |-> 1, n |-> 31], [k |-> 3, n |-> 1]>>
  /\ outcome # <<>>
  /\ outcome[1].op = "rank"
  /\ outcome[1].question = <<"show", "nda", "agreements">>
  /\ outcome[1].filters = NoFilters
  /\ outcome[1].result.path = "scored"
  /\ DocumentScore(Corpus[3], outcome[1].question, outcome[1].query_analysis) = 0
  /\ Len(Returned) = 30
  /\ \A i \in 1..Len(Returned) : Returned[i] = Corpus[1]

\* The collection holds one document of agreement type NDA and one of type MSA.
OneNdaOneMsa ==
  /\ Len(Documents(collection)) = 2
  /\ \E i, j \in 1..2 : /\ Documents(collection)[i].metadata.agreement_type = "NDA"
                        /\ Documents(collection)[j].metadata.agreement_type = "MSA"

\* The ranker has been asked "show nda agreements".
AskedForNda ==
  /\ outcome # <<>>
  /\ outcome[1].op = "rank"
  /\ outcome[1].question = <<"show", "nda", "agreements">>

\* C2 as stated: for "show nda agreements" over one NDA and one MSA document the ranker
\* returns only the NDA document: the MSA document scores 0 and is dropped.
C2_Original ==
  AskedForNda /\ OneNdaOneMsa =>
    /\ Len(Returned) = 1
    /\ Returned[1].metadata.agreement_type = "NDA"
    /\ \A i \in 1..2 :
         Documents(collection)[i].metadata.agreement_type = "MSA" =>
           DocumentScore(Documents(collection)[i], outcome[1].question, outcome[1].query_analysis) = 0

\* C2, amended: for "show nda agreements" over one NDA and one MSA document the ranker
\* returns each of the two documents that the filters keep, both when there are no
\* filters: the MSA document scores at least 2, which its label has as one of the
\* generic terms, and is not dropped.
C2_GenericTermKeepsMsa ==
  AskedForNda /\ OneNdaOneMsa =>
    /\ \A i \in 1..2 :
         include_doc(Documents(collection)[i], outcome[1].filters) =>
           \E j \in 1..Len(Returned) : Returned[j] = Documents(collection)[i]
    /\ outcome[1].filters = NoFilters => Len(Returned) = 2
    /\ \A i \in 1..2 :
         Documents(collection)[i].metadata.agreement_type = "MSA" =>
           DocumentScore(Documents(collection)[i], outcome[1].question, outcome[1].query_analysis) >= 4

\* One NDA and one MSA document have been ranked for "show nda agreements" with no
\* filters: both are returned, the MSA document with a score of 2.
C2_Witness ==
  /\ collection = <<[k |-> 1, n |-> 1], [k |-> 2, n |-> 1]>>
  /\ AskedForNda
  /\ outcome[1].filters = NoFilters
  /\ Returned = <<Corpus[1], Corpus[2]>>
  /\ DocumentScore(Corpus[2], outcome[1].question, outcome[1].query_analysis) = 4

(***************************************************************************)
(* Properties of the comparison builder.                                   *)
(***************************************************************************)
\* The places, in the collection, of the documents that share the value of a dimension.
SubGroup(comparison_type) ==
  LET documents == Documents(collection)
  IN {i \in 1..Len(documents) : documents[i].metadata[comparison_type.dimension] = comparison_type.value}

\* C8: the comparison builder returns no comparison for fewer than 2 documents, and
\* every comparison it returns is for a sub-group (the documents that share one
\* agreement type, one jurisdiction or one industry) of at least 2 members.
C8_GroupsOfTwo ==
  outcome # <<>> /\ outcome[1].op = "compare" =>
    /\ Len(Documents(collection)) < 2 => outcome[1].result = <<>>
    /\ \A c \in 1..Len(outcome[1].result) :
         LET comparison == outcome[1].result[c]
             documents == Documents(collection)
             group == SubGroup(comparison.comparison_type)
             places == Ascending(group)
         IN /\ comparison.comparison_type.dimension \in {"agreement_type", "jurisdiction", "industry"}
            /\ comparison.comparison_type.value # None
            /\ Cardinality(group) >= 2
            /\ Len(comparison.documents_involved) = Cardinality(group)
            /\ comparison.documents_involved =
                 [i \in 1..Len(comparison.documents_involved) |-> documents[places[i]].metadata.filename]

\* 31 lease documents and one NDA document have been compared: there is a comparison
\* for the agreement type, the jurisdiction and the industry of the 31, none for the NDA.
C8_Witness ==
  /\ collection = <<[k |-> 5, n |-> 31], [k |-> 1, n |-> 1]>>
  /\ outcome # <<>>
  /\ outcome[1].op = "compare"
  /\ Len(outcome[1].result) = 3
  /\ \A c \in 1..3 : /\ Len(outcome[1].result[c].documents_involved) = 31
                     /\ outcome[1].result[c].comparison_type.value # "NDA"

C11_FallbackBundle ==
  analysis # <<>> /\ analysis[1].raised =>
    /\ analysis[1].insights.risk_assessment = "Low"
    /\ analysis[1].insights.compliance_status = "Compliant"
    /\ analysis[1].insights.confidence_score = 30
    /\ analysis[1].document.ai_insights = <<analysis[1].insights>>
    /\ analysis[1].document.confidence_score = 30

C11_Witness ==
  /\ analysis # <<>>
  /\ analysis[1].raised
  /\ analysis[1].text = <<[phrase |-> <<"breach">>, n |-> 4]>>
  /\ analysis[1].insights.risk_assessment = "Low"
  /\ _assess_risk_level(analysis[1].text) # "Low"

(***************************************************************************)
(* C12: a document whose scoring fell back to the default bundle has a     *)
(* processing error recorded on it.                                        *)
(***************************************************************************)
C12_FallbackRecorded ==
  analysis # <<>> /\ analysis[1].raised => analysis[1].document.processing_errors # <<>>

(***************************************************************************)
(* C13: what export reads is the collection the dashboard, the query and   *)
(* the document list read: every document uploaded and not deleted is      *)
(* among the documents of an export.                                       *)
(***************************************************************************)
C13_SingleStore ==
  outcome # <<>> /\ outcome[1].op = "export" =>
    /\ outcome[1].read = collection
    /\ collection # <<>> => outcome[1].status = 200

\* The scores of the documents of the corpus, for a question and its analysis.
RECURSIVE ScoresFrom(_, _, _)
ScoresFrom(k, question, query_analysis) ==
  IF k > Len(Corpus) THEN <<>>
  ELSE <<DocumentScore(Corpus[k], question, query_analysis)>> \o ScoresFrom(k + 1, question, query_analysis)

\* The place of a document in the corpus.
KindOf(d) == CHOOSE k \in 1..Len(Corpus) : Corpus[k] = d

\* The ranker has returned the documents of a question, by the path given.
Ranked(path) ==
  outcome # <<>> /\ outcome[1].op = "rank" /\ ~outcome[1].result.raised /\ outcome[1].result.path = path

(***************************************************************************)
(* C14: on the scored path the scores of the documents returned never      *)
(* rise from one to the next, and the documents returned with one score    *)
(* stand as they stand in the collection: they are the first of the        *)
(* documents of that score the filters leave in, in the order of the       *)
(* collection.                                                             *)
(***************************************************************************)
C14_StableOrder ==
  Ranked("scored") =>
    LET scores == ScoresFrom(1, outcome[1].question, outcome[1].query_analysis)
        score(d) == scores[KindOf(d)]
        kept == SelectSeq(Documents(collection), LAMBDA d : include_doc(d, outcome[1].filters))
    IN /\ \A i \in 1..(Len(Returned) - 1) : score(Returned[i]) >= score(Returned[i + 1])
       /\ \A k \in 1..Len(scores) :
            IsPrefix(SelectSeq(Returned, LAMBDA d : score(d) = scores[k]),
                     SelectSeq(kept, LAMBDA d : score(d) = scores[k]))

\* Two unlike documents of one score, the MSA before the NDA, are returned as they stood.
C14_Witness ==
  /\ Ranked("scored")
  /\ collection = <<[k |-> 2, n |-> 1], [k |-> 1, n |-> 1]>>
  /\ outcome[1].question = <<"compare", "risk", "agreements">>
  /\ DocumentScore(Corpus[2], outcome[1].question, outcome[1].query_analysis)
       = DocumentScore(Corpus[1], outcome[1].question, outcome[1].query_analysis)
  /\ Returned = <<Corpus[2], Corpus[1]>>

(***************************************************************************)
(* C15: for an analysis with no entities and intent general_search the     *)
(* ranker returns the first 20 of the documents the filters leave in, as   *)
(* they stand in the collection, whatever their scores.                    *)
(***************************************************************************)
C15_FastPath ==
  outcome # <<>> /\ outcome[1].op = "rank"
    /\ outcome[1].query_analysis.entities = <<>> /\ outcome[1].query_analysis.intent = "general_search" =>
    LET surviving == SelectSeq(Documents(collection), LAMBDA d : include_doc(d, outcome[1].filters))
    IN /\ outcome[1].result.path = "fast"
       /\ ~outcome[1].result.raised
       /\ Len(Returned) = Min({20, Len(surviving)})
       /\ IsPrefix(Returned, surviving)

\* 31 documents of score 0 pass the filters after one that does not: 20 are returned.
C15_Witness ==
  /\ Ranked("fast")
  /\ collection = <<[k |-> 4, n |-> 1], [k |-> 3, n |-> 31]>>
  /\ outcome[1].filters = [NoFilters EXCEPT !.file_type = ".PDF", !.date_from = 1]
  /\ DocumentScore(Corpus[3], outcome[1].question, outcome[1].query_analysis) = 0
  /\ Returned = [i \in 1..20 |-> Corpus[3]]

\* C16 as stated: a document is kept iff each of the five fields the filters set is
\* lacking in the document or equal in it.
FiveFieldsAllow(d, filters) ==
  \A field \in {"agreement_type", "jurisdiction", "industry", "geography", "file_type"} :
    filters[field] # None =>
      \/ d.metadata[field] = (IF field = "file_type" THEN "" ELSE None)
      \/ d.metadata[field] = filters[field]

\* The same with the file type compared whatever the case of its letters.
FiveFieldsAllowAnyCase(d, filters) ==
  \A field \in {"agreement_type", "jurisdiction", "industry", "geography", "file_type"} :
    filters[field] # None =>
      \/ d.metadata[field] = (IF field = "file_type" THEN "" ELSE None)
      \/ d.metadata[field] = filters[field]
      \/ field = "file_type" /\ Lower[d.metadata[field]] = Lower[filters[field]]

\* The upload date of the document is within the dates the filters set.
DatesAllow(d, filters) ==
  /\ filters.date_from # NoneNum => d.metadata.upload_date >= filters.date_from
  /\ filters.date_to # NoneNum => d.metadata.upload_date <= filters.date_to

\* The ranker returned, by the fast path, every document the filters left in.
AllSurvivorsReturned == Ranked("fast") /\ Len(Returned) < 20

DimensionOf(d, about) == IF about = "risk_level" THEN RiskOf(d) ELSE d.metadata[about]

(***************************************************************************)
(* C17: a similarity of a comparison is about a dimension that every       *)
(* member of the group has, with the value the similarity states.          *)
(***************************************************************************)
C17_AllMembersShare ==
  outcome # <<>> /\ outcome[1].op = "compare" =>
    \A c \in 1..Len(outcome[1].result) :
      \A s \in 1..Len(outcome[1].result[c].similarities) :
        \A i \in SubGroup(outcome[1].result[c].comparison_type) :
          DimensionOf(Documents(collection)[i], outcome[1].result[c].similarities[s].about)
            = outcome[1].result[c].similarities[s].value

\* C18 as stated, in hundredths: the mean of the factors, the confidences of the
\* documents being one factor, their mean, when any document has one.
MeanOfFactors(documents, similarities, differences) ==
  LET scores == SelectSeq([i \in 1..Len(documents) |->
                             IF documents[i].ai_insights # <<>> THEN documents[i].ai_insights[1].confidence_score ELSE 0],
                          LAMBDA c : c # 0)
      metadata_complete == Len(SelectSeq(documents,
                             LAMBDA d : d.metadata.agreement_type # None /\ d.metadata.jurisdiction # None
                                        /\ d.metadata.industry # None))
      found == IF similarities # <<>> \/ differences # <<>> THEN 1 ELSE 0
  IN IF scores = <<>>
     THEN RoundQuotient(100 * metadata_complete + 100 * found * Len(documents), Len(documents) * 2)
     ELSE RoundQuotient(SumSeq(scores) * Len(documents) + 100 * metadata_complete * Len(scores)
                          + 100 * found * Len(documents) * Len(scores),
                        Len(documents) * Len(scores) * 3)

(***************************************************************************)
(* C18: the confidence of a comparison is the mean, rounded to hundredths, *)
(* of its factors: the mean confidence of the members that have one, the   *)
(* share of the members with agreement type, jurisdiction and industry,    *)
(* and 1 if a similarity or a difference was found, else 0.                *)
(***************************************************************************)
C18_MeanOfFactors ==
  outcome # <<>> /\ outcome[1].op = "compare" =>
    \A c \in 1..Len(outcome[1].result) :
      outcome[1].result[c].confidence_score
        = MeanOfFactors([i \in 1..Cardinality(SubGroup(outcome[1].result[c].comparison_type)) |->
                           Documents(collection)[Ascending(SubGroup(outcome[1].result[c].comparison_type))[i]]],
                        outcome[1].result[c].similarities, outcome[1].result[c].differences)

\* The recent uploads of the dashboard returned.
Recent == outcome[1].result.recent_uploads

\* The number of the elements of a sequence of the date given.
CountOfDate(s, date(_), t) == Cardinality({i \in 1..Len(s) : date(s[i]) = t})

(***************************************************************************)
(* C19: the recent uploads of the dashboard are at most 10, stand by       *)
(* descending upload date, and are the latest: every document uploaded     *)
(* later than one of them is among them.                                   *)
(***************************************************************************)
C19_MostRecent ==
  outcome # <<>> /\ outcome[1].op = "aggregate" =>
    /\ Len(Recent) <= 10
    /\ Len(Recent) = Min({10, Len(Documents(collection))})
    /\ \A i \in 1..(Len(Recent) - 1) : Recent[i].upload_date >= Recent[i + 1].upload_date
    /\ \A i \in 1..Len(Recent) : \A t \in (Recent[i].upload_date + 1)..MaxClock :
         CountOfDate(Documents(collection), LAMBDA d : d.metadata.upload_date, t)
           = CountOfDate(Recent, LAMBDA x : x.upload_date, t)

\* The question has the word, as Python's  word in question_lower  has it.
Mentions(question, w) == IsSubstring(Spell[w], JoinChars(question))

\* The word of a question for a risk tier, and for a compliance status.
TierWord ==
  "High" :> "high" @@ "Medium" :> "medium" @@ "Low" :> "low" @@ "Critical" :> "critical"

StatusWord ==
  "Compliant" :> "compliant" @@ "Non-Compliant" :> "non" @@ "Pending Review" :> "pending"
    @@ "Requires Action" :> "requires"

\* The document with one field of its insights unset.
Without(d, field) == [d EXCEPT !.ai_insights[1][field] = None]

(***************************************************************************)
(* C20: on the scored path a question that mentions "risk" and the word of *)
(* the risk tier of a document gives the document 4 points (8 halves) more *)
(* than it would have with no risk tier, and likewise "compliance" and the *)
(* word of its compliance status.                                          *)
(***************************************************************************)
C20_TierBonus ==
  Ranked("scored") =>
    \A i \in 1..Len(Documents(collection)) :
      LET d == Documents(collection)[i]
          score(x) == DocumentScore(x, outcome[1].question, outcome[1].query_analysis)
      IN d.ai_insights # <<>> =>
           /\ Mentions(outcome[1].question, "risk")
                /\ d.ai_insights[1].risk_assessment \in {"High", "Medium", "Low"}
                /\ Mentions(outcome[1].question, TierWord[d.ai_insights[1].risk_assessment])
                => score(d) = score(Without(d, "risk_assessment")) + 8
           /\ Mentions(outcome[1].question, "compliance")
                /\ d.ai_insights[1].compliance_status \in {"Compliant", "Non-Compliant", "Pending Review"}
                /\ Mentions(outcome[1].question, StatusWord[d.ai_insights[1].compliance_status])
                => score(d) = score(Without(d, "compliance_status")) + 8

(***************************************************************************)
(* Properties of the confidence score.                                     *)
(***************************************************************************)
\* The addition of the first tier that x reaches, the tiers standing from the highest
\* down: a tier is reached when x exceeds its bound, or, with the boundaries included,
\* when x is at least its bound.
TierBonus(x, tiers, included, least) ==
  LET reached == {t \in 1..Len(tiers) : IF included THEN x >= tiers[t][1] ELSE x > tiers[t][1]}
  IN IF reached = {} THEN least ELSE tiers[Min(reached)][2]

LengthTiers == << <<2000, 25>>, <<1000, 20>>, <<500, 15>>, <<200, 10>> >>
KeyTermTiers == << <<8, 20>>, <<5, 15>>, <<3, 10>>, <<1, 5>> >>
LegalTiers == << <<3, 15>>, <<1, 10>> >>
BusinessTiers == << <<2, 10>>, <<0, 5>> >>

\* How many of the indicators occur in the text.
IndicatorCount(indicators, runs) ==
  Cardinality({i \in 1..Len(indicators) : InText(indicators[i], runs)})

\* The heuristic confidence of the claim, in hundredths, the boundaries of the length
\* tiers being included or not.
ClaimedConfidence(runs, key_terms, included) ==
  Min({95,
       40 + TierBonus(text_length(runs), LengthTiers, included, 5)
          + TierBonus(Cardinality(key_terms), KeyTermTiers, FALSE, 0)
          + TierBonus(IndicatorCount(legal_indicators, runs), LegalTiers, FALSE, 0)
          + TierBonus(IndicatorCount(business_indicators, runs), BusinessTiers, FALSE, 0)
          + (IF CharCount(".", runs) > 10 THEN 5 ELSE 0)
          + (IF CharCount(NL, runs) > 5 THEN 5 ELSE 0)})

\* C21 as stated: the heuristic confidence is min(0.95, 0.4 + the bonuses), the length
\* bonus being +0.25 for at least 2000 words, +0.20 for at least 1000, +0.15 for at
\* least 500, +0.10 for at least 200 and +0.05 otherwise.
C21_Original ==
  analysis # <<>> /\ ~analysis[1].raised =>
    analysis[1].insights.confidence_score
      = ClaimedConfidence(analysis[1].text, analysis[1].insights.key_terms, TRUE)

\* C21, amended: the heuristic confidence is min(0.95, 0.4 + the bonuses), the length
\* bonus being +0.25 for more than 2000 words, +0.20 for more than 1000, +0.15 for
\* more than 500, +0.10 for more than 200 and +0.05 otherwise; the key-term bonus
\* +0.20, +0.15, +0.10, +0.05 for more than 8, 5, 3, 1 key terms; the legal bonus
\* +0.15, +0.10 for more than 3, 1 indicators; the business bonus +0.10, +0.05 for
\* more than 2, 0 indicators; +0.05 for more than 10 periods and +0.05 for more than 5
\* newlines.
C21_ConfidenceFormula ==
  analysis # <<>> /\ ~analysis[1].raised =>
    analysis[1].insights.confidence_score
      = ClaimedConfidence(analysis[1].text, analysis[1].insights.key_terms, FALSE)

\* A text of exactly 200 words has been scored: 0.4 + 0.05 for the length + 0.05 for
\* the two default key terms.
C21_Witness ==
  /\ analysis # <<>>
  /\ ~analysis[1].raised
  /\ analysis[1].text = <<[phrase |-> <<"foo">>, n |-> 200]>>
  /\ text_length(analysis[1].text) = 200
  /\ analysis[1].insights.key_terms = {"Legal Document", "Agreement"}
  /\ analysis[1].insights.confidence_score = 50

(***************************************************************************)
(* Properties of the business-impact label.                                *)
(***************************************************************************)
\* The areas in the order of the label, and in the order of priority of the description.
LabelOrder == <<"financial", "operational", "strategic", "regulatory">>
PriorityOrder == <<"financial", "strategic", "regulatory", "operational">>

AreaName ==
  "financial" :> "Financial" @@ "operational" :> "Operational" @@ "strategic" :> "Strategic"
    @@ "regulatory" :> "Regulatory"

AreaDescription ==
  "financial" :> "Significant financial implications"
    @@ "strategic" :> "Strategic business decisions required"
    @@ "regulatory" :> "Regulatory compliance critical"
    @@ "operational" :> "Operational processes affected"

\* count matches in wc words are a rate per 100 words of more than a / b.
RateOver(count, wc, a, b) == wc > 0 /\ count * 100 * b > a * wc

\* The areas of the label of the claim, from the raw counts and the number of words.
ClaimedAreas(counts, wc) ==
  LET listed == SelectSeq(LabelOrder, LAMBDA area : RateOver(counts[area], wc, 5, 2))
  IN IF listed # <<>> THEN [i \in 1..Len(listed) |-> AreaName[listed[i]]]
     ELSE IF \E area \in DOMAIN counts : RateOver(counts[area], wc, 3, 2) THEN <<"Moderate">>
     ELSE <<"Limited">>

\* The generic descriptions.
GenericDescriptions == {"Moderate business impact", "Standard business impact"}

\* The scorer has assessed a text in which a pattern of an impact area matches.
ImpactAssessed ==
  /\ analysis # <<>>
  /\ ~analysis[1].raised
  /\ \E area \in DOMAIN analysis[1].locals[1].counts.impact : analysis[1].locals[1].counts.impact[area] > 0

\* C22 as stated: an area is listed iff its rate per 100 words exceeds 2.5 (else the
\* single area is Moderate when the largest rate exceeds 1.5, or Limited), and the
\* description is that of the first area, in the order Financial, Strategic,
\* Regulatory, Operational, that is listed and whose own raw count exceeds 3,
\* otherwise a generic string.
C22_Original ==
  ImpactAssessed =>
    LET counts == analysis[1].locals[1].counts.impact
        wc == analysis[1].locals[1].words
        impact == analysis[1].insights.business_impact
        chosen == SelectSeq(PriorityOrder,
                            LAMBDA area : RateOver(counts[area], wc, 5, 2) /\ counts[area] > 3)
    IN /\ impact.areas = ClaimedAreas(counts, wc)
       /\ IF chosen # <<>> THEN impact.description = AreaDescription[chosen[1]]
          ELSE impact.description \in GenericDescriptions

\* C22, amended: the label is "Standard business operations" when no pattern of an
\* area matches; otherwise an area is listed iff its rate per 100 words exceeds 2.5
\* (else the single area is Moderate when the largest rate exceeds 1.5, or Limited),
\* and the description is that of the first area, in the order Financial, Strategic,
\* Regulatory, Operational, that is listed, when the largest of the four rates
\* exceeds 3; otherwise it is the moderate string when the largest rate exceeds 2 and
\* the standard string when not.
C22_ImpactLabel ==
  analysis # <<>> /\ ~analysis[1].raised =>
    LET counts == analysis[1].locals[1].counts.impact
        wc == analysis[1].locals[1].words
        impact == analysis[1].insights.business_impact
        largest_over(a) == \E area \in DOMAIN counts : RateOver(counts[area], wc, a, 1)
        chosen == SelectSeq(PriorityOrder, LAMBDA area : RateOver(counts[area], wc, 5, 2))
    IN IF ~ImpactAssessed
       THEN impact = [areas |-> <<>>, description |-> "Standard business operations"]
       ELSE /\ impact.areas = ClaimedAreas(counts, wc)
            /\ impact.description =
                 IF chosen # <<>> /\ largest_over(3) THEN AreaDescription[chosen[1]]
                 ELSE IF largest_over(2) THEN "Moderate business impact"
                 ELSE "Standard business impact"

\* "audit" stands three times in a text of three words: the regulatory area is listed
\* and, the rate being 100, described, although its raw count does not exceed 3.
C22_Witness ==
  /\ ImpactAssessed
  /\ analysis[1].text = <<[phrase |-> <<"audit">>, n |-> 3]>>
  /\ analysis[1].locals[1].counts.impact.regulatory = 3
  /\ analysis[1].insights.business_impact
       = [areas |-> <<"Regulatory">>, description |-> "Regulatory compliance critical"]

(***************************************************************************)
(* C23: the recommendations of the insights attached to a document are the *)
(* fixed strings of its risk tier, then of its compliance status, then of  *)
(* its business-impact label, at most 6 of them, or the two fallback       *)
(* strings when there is none.                                             *)
(***************************************************************************)
C23_Recommendations ==
  analysis # <<>> /\ ~analysis[1].raised =>
    analysis[1].document.ai_insights[1].recommendations
      = _generate_recommendations(analysis[1].insights.risk_assessment,
                                  analysis[1].insights.compliance_status,
                                  analysis[1].insights.business_impact)

(***************************************************************************)
(* Properties of the extraction patterns.                                  *)
(***************************************************************************)
\* The governing-law patterns and the value patterns that match a text.
LawMatching(toks) ==
  {k \in 1..Len(governing_law_heads) : SearchLaw(governing_law_heads[k], toks) # NoPhrase}

ValueMatches(toks) == SelectSeq(<<SearchValue1(toks), SearchValue2(toks)>>, LAMBDA found : found # <<>>)

\* The party patterns that match a text.
PartyMatching(toks) == {k \in 1..Len(party_heads) : PartyFindAll(k, toks, 1) # <<>>}

\* The governing law and the value are those of the first pattern of the list that
\* matches the text.
FirstLawAndValue(m, toks) ==
  /\ m.governing_law = IF LawMatching(toks) = {} THEN NoPhrase
                       ELSE SearchLaw(governing_law_heads[Min(LawMatching(toks))], toks)
  /\ <<m.value, m.currency>> = IF ValueMatches(toks) = <<>> THEN <<NoneNum, None>>
                               ELSE ValueMatches(toks)[1]

\* The elements of a sequence.
Range(s) == {s[i] : i \in 1..Len(s)}

\* C24 as stated: in party, governing-law and value extraction only the first pattern
\* of the list that matches the text contributes to the result.
C24_Original ==
  \A n \in 1..Len(results) :
    Words(text) # <<>> =>
      /\ FirstLawAndValue(results[n], Words(text))
      /\ Range(results[n].parties)
           = IF PartyMatching(Words(text)) = {} THEN {}
             ELSE Range(PartyFindAll(Min(PartyMatching(Words(text))), Words(text), 1))

\* C24, amended: in governing-law and value extraction only the first pattern of the
\* list that matches the text contributes to the result; in party extraction the
\* names of the matches of every pattern are in the result, each name once.
C24_FirstPatternWins ==
  \A n \in 1..Len(results) :
    Words(text) # <<>> =>
      /\ FirstLawAndValue(results[n], Words(text))
      /\ Range(results[n].parties)
           = UNION {Range(PartyFindAll(k, Words(text), 1)) : k \in 1..Len(party_heads)}
      /\ Cardinality(Range(results[n].parties)) = Len(results[n].parties)

\* A text in which the second governing-law pattern matches before the first has been
\* classified: the law is that of the first pattern, and the party is that of the
\* second party pattern.
C24_Witness ==
  /\ text = << <<"party", "a", "foo", "governing", "law", "gulf", "law">>,
               <<"governed", "by", "english", "law">> >>
  /\ results # <<>>
  /\ LawMatching(Words(text)) = {1, 2}
  /\ SearchLaw(governing_law_heads[2], Words(text)) = <<"gulf">>
  /\ results[1].governing_law = <<"english">>
  /\ results[1].parties = << <<"foo">> >>

(***************************************************************************)
(* C25: for a text that is empty or of white space only, every field of    *)
(* the classification is unset, and the structural fields (file name,      *)
(* size, type, time of upload) are those of the file: they are the same    *)
(* for every such text of the file.                                        *)
(***************************************************************************)
C25_EmptyText ==
  \A n \in 1..Len(results) :
    (\A i \in 1..Len(Words(text)) : Words(text)[i] = NL) =>
      /\ Classification(results[n])
           = [agreement_type |-> None, jurisdiction |-> None, industry |-> None, geography |-> None,
              governing_law |-> NoPhrase, parties |-> <<>>, effective_date |-> NoneNum,
              expiration_date |-> NoneNum, value |-> NoneNum, currency |-> None]
      /\ results[n].filename = ClassifyFile
      /\ results[n].file_type = Suffix(ClassifyFile)
      /\ results[n].upload_date \in 0..now
      /\ results[n].file_size = _extract_metadata(ClassifyFile, <<>>, now).file_size

(***************************************************************************)
(* C26: every entity of the analysis of a question is a string, so the     *)
(* ranker's test of the entities against the text of a document is defined *)
(* and no call of the ranker ends in the error response.                   *)
(***************************************************************************)
C26_EntitiesAreStrings ==
  outcome # <<>> /\ outcome[1].op = "rank" =>
    /\ \A e \in 1..Len(outcome[1].query_analysis.entities) : ~outcome[1].query_analysis.entities[e].tuple
    /\ ~outcome[1].result.raised

(***************************************************************************)
(* C27: the analysis of a question has the intent general_search exactly   *)
(* when it has no entity; so the ranker takes the fast path exactly when   *)
(* the intent is general_search, and the confidence of the analysis is     *)
(* never 0.6.                                                              *)
(***************************************************************************)
C27_GeneralSearchNoEntities ==
  analysed # <<>> =>
    LET query_analysis == analysed[1].query_analysis
        general == query_analysis.intent = "general_search"
    IN /\ general <=> query_analysis.entities = <<>>
       /\ general <=> _filter_documents_enhanced(analysed[1].question, <<Corpus[1]>>,
                                                 query_analysis, NoFilters).path = "fast"
       /\ query_analysis.confidence # 60

\* "compare between nda" has been analysed: the lazy group of the first comparison
\* pattern captures the empty string, which is the one entity of the analysis.
C27_Witness ==
  /\ analysed # <<>>
  /\ analysed[1].question = <<"compare", "between", "nda">>
  /\ analysed[1].query_analysis.intent = "comparison"
  /\ analysed[1].query_analysis.entities = <<[tuple |-> FALSE, parts |-> << <<>> >>]>>

(***************************************************************************)
(* Properties of the document store.                                       *)
(***************************************************************************)
\* The ids of the documents of a sequence.
IdsOf(documents) == {documents[i].id : i \in 1..Len(documents)}

\* C28: after any requests the document list of the query service holds exactly the
\* documents of the file store, each id at most once, and no deleted document.
C28_ListsAgree ==
  /\ IdsOf(documents_storage) = IdsOf(file_storage)
  /\ Cardinality(IdsOf(documents_storage)) = Len(documents_storage)
  /\ IdsOf(documents_storage) \cap deleted = {}

\* C29: for every text the scorer returns a risk tier among Low, Medium, High and a
\* compliance status among Compliant, Pending Review, Requires Action; Critical and
\* Non-Compliant are never produced, so the CRITICAL count of the dashboard's risk
\* distribution is 0 for a collection of documents scored by it.
C29_TiersProduced ==
  analysis # <<>> =>
    /\ analysis[1].insights.risk_assessment \in {"Low", "Medium", "High"}
    /\ analysis[1].insights.compliance_status \in {"Compliant", "Pending Review", "Requires Action"}
    /\ risk_distribution(<<analysis[1].document, analysis[1].document>>).CRITICAL = 0

C29_Witness ==
  /\ analysis # <<>>
  /\ ~analysis[1].raised
  /\ analysis[1].insights.risk_assessment = "High"
  /\ analysis[1].insights.compliance_status = "Requires Action"
  /\ risk_distribution(<<analysis[1].document, analysis[1].document>>) =
       [LOW |-> 0, MEDIUM |-> 0, HIGH |-> 2, CRITICAL |-> 0]

====
